---- MODULE Spec2Model ----
(***************************************************************************)
(* ChemBasePetko: the storage / search abstraction over a relational       *)
(* Primary Store (Supabase) and a Vector Store (Weaviate, AstraDB), and    *)
(* the bulk loaders that feed both.                                        *)
(*                                                                         *)
(* Two storage variants live in the repository and both are modelled:     *)
(*   - server/storage.ts   : SupabaseStorage (the exported `storage`),     *)
(*                           on db/supabase.ts and db/weaviate.ts;         *)
(*   - the AstraDB variant : MemStorage with the batch-parallel loader,    *)
(*                           on db/astradb.ts and supabase addCompound.    *)
(* An action is one step of a request or task between two awaits of the    *)
(* source.  An await on an external call (file, Supabase, Weaviate,        *)
(* AstraDB) ends when its I/O completes, and other requests and tasks run  *)
(* meanwhile.  An await on in-memory code resumes as a microtask, before   *)
(* the event loop delivers another I/O completion (MicrotaskPending).      *)
(***************************************************************************)
EXTENDS Integers, Sequences, FiniteSets, TLC

\* ------------------------------------------------------------------ bounds
MaxFiles == 2
MaxSeedFiles == 1
MaxRuns == 2
MaxOps == 3
MaxStore == 2
MaxMatches == 25
MaxPage == 4
MaxRetries == 3
MaxCount == 2

\* -------------------------------------------------------- program constants
FlushSize == 500
SeedLimit == 20
batchSize == 50
KeywordFetch == 1000
BATCH_SIZE == 10
BATCH_DB_SIZE == 500
TotalCompounds == 144000
Rnd_batchSize == 40
Lc_BATCH_SIZE == 500
MAX_RETRIES == 3

\* ------------------------------------------------------------- input sets
CIDs == {1, 2}
ArrayLens == {0, 1, 2}
Limits == {1, 2}
Procs == {1, 2}

\* ------------------------------------------------------------------- text
\* A string is the sequence of its characters.
UpperCase == <<"A", "B", "C", "D", "E", "F", "G", "H", "I", "J", "K", "L", "M",
               "N", "O", "P", "Q", "R", "S", "T", "U", "V", "W", "X", "Y", "Z">>

LowerCase == <<"a", "b", "c", "d", "e", "f", "g", "h", "i", "j", "k", "l", "m",
               "n", "o", "p", "q", "r", "s", "t", "u", "v", "w", "x", "y", "z">>

\* String.prototype.toLowerCase
toLowerCase(str) ==
  [i \in DOMAIN str |->
     IF \E k \in DOMAIN UpperCase : UpperCase[k] = str[i]
     THEN LowerCase[CHOOSE k \in DOMAIN UpperCase : UpperCase[k] = str[i]]
     ELSE str[i]]

\* String.prototype.includes
includes(str, part) ==
  \E k \in 0..(Len(str) - Len(part)) : SubSeq(str, k + 1, k + Len(part)) = part

\* String.prototype.trim() leaves the empty string
TrimsToEmpty(str) == \A i \in DOMAIN str : str[i] = " "

\* -------------------------------------------------------------- compounds
\* null / undefined of a nullable column; a null text is the empty string
\* (`x?.toLowerCase().includes(q)` is falsy for both when q is not empty).
Null == 0 - 1

\* The fields of a compound are fixed by its cid.
Aspirin ==
  [name |-> <<"A", "s", "p", "i", "r", "i", "n">>,
   formula |-> <<"C", "9", "H", "8", "O", "4">>,
   description |-> <<"A", "n", " ", "a", "c", "i", "d">>,
   synonyms |-> <<<<"A", "S", "A">>>>,
   molecularWeight |-> 180,
   chemicalClass |-> <<<<"A", "r", "o", "m", "a", "t", "i", "c">>>>]

AceticAcid ==
  [name |-> <<"A", "c", "e", "t", "i", "c", " ", "A", "c", "i", "d">>,
   formula |-> <<"C", "2", "H", "4", "O", "2">>,
   description |-> <<>>,
   synonyms |-> <<>>,
   molecularWeight |-> 60,
   chemicalClass |-> <<<<"A", "l", "i", "p", "h", "a", "t", "i", "c">>>>]

Salt(w) ==
  [name |-> <<"S", "a", "l", "t">>,
   formula |-> <<>>,
   description |-> <<>>,
   synonyms |-> <<>>,
   molecularWeight |-> w,
   chemicalClass |-> <<>>]

\* Weights around the bucket limits, and the unknown weights: null and the
\* 0 that the Normalizer writes when the record has no weight.
SaltWeights == <<Null, 0, 99, 100, 101, 200, 201, 500, 501>>

Catalog(cid) ==
  CASE cid = 1 -> Aspirin
    [] cid = 2 -> AceticAcid
    [] cid - 2 \in DOMAIN SaltWeights -> Salt(SaltWeights[cid - 2])
    [] OTHER -> Salt(150)

\* ------------------------------------------------------------ the requests
\* The strings of the requests: queries and a chemical class.
Str ==
  [aspirin |-> <<"a", "s", "p", "i", "r", "i", "n">>,
   acid |-> <<"a", "c", "i", "d">>,
   xyz |-> <<"x", "y", "z">>,
   salt |-> <<"s", "a", "l", "t">>,
   ASPIRIN |-> <<"A", "S", "P", "I", "R", "I", "N">>,
   c9h8 |-> <<"c", "9", "h", "8">>,
   asa |-> <<"a", "s", "a">>,
   aromatic |-> <<"a", "r", "o", "m", "a", "t", "i", "c">>]

\* Search requests without filters, sorted by relevance.
Unfiltered(query, searchType, page, limit) ==
  [query |-> query, searchType |-> searchType, molecularWeight |-> "",
   chemicalClass |-> <<>>, sort |-> "relevance", page |-> page, limit |-> limit]

Requests ==
  {Unfiltered(Str.aspirin, "semantic", 1, 1),
   Unfiltered(Str.acid, "semantic", 2, 1),
   Unfiltered(Str.xyz, "semantic", 1, 2),
   Unfiltered(Str.aspirin, "keyword", 1, 2),
   Unfiltered(Str.acid, "keyword", 2, 1),
   Unfiltered(Str.xyz, "keyword", 1, 1)}

\* SupabaseStorage keyword match: the query in the name, the description or
\* one of the synonyms, case-insensitive.
matchesKeyword(compound, query) ==
  LET q == toLowerCase(query) IN
  \/ includes(toLowerCase(compound.name), q)
  \/ includes(toLowerCase(compound.description), q)
  \/ \E i \in DOMAIN compound.synonyms : includes(toLowerCase(compound.synonyms[i]), q)

\* `compound.chemicalClass?.some(cls => cls.toLowerCase().includes(...))`
matchesChemClass(compound, chemicalClass) ==
  \E i \in DOMAIN compound.chemicalClass :
    includes(toLowerCase(compound.chemicalClass[i]), toLowerCase(chemicalClass))

\* Truthiness of a nullable number: null and 0 are falsy.
Truthy(w) == w # Null /\ w # 0

\* filterByMolecularWeight (the same in SupabaseStorage and both MemStorage)
filterByMolecularWeight_Ranges(compound, filter) ==
  LET w == compound.molecularWeight IN
  CASE filter = "lt_100" -> w >= 0 /\ w <= 100
    [] filter = "100-200" -> w >= 100 /\ w <= 200
    [] filter = "200-500" -> w >= 200 /\ w <= 500
    [] filter = "gt_500" -> w >= 500
    [] OTHER -> TRUE

filterByMolecularWeight(compound, filter) ==
  LET w == compound.molecularWeight IN
  IF ~Truthy(w) THEN FALSE
  ELSE CASE filter = "lt_100" -> w < 100
         [] filter = "100-200" -> w >= 100 /\ w <= 200
         [] filter = "200-500" -> w > 200 /\ w <= 500
         [] filter = "gt_500" -> w > 500
         [] OTHER -> TRUE

\* Array.prototype.sort by a numeric key: ascending and stable.  keys[i] is
\* the key of s[i].
StableSortByKey(s, keys) ==
  LET rank == [i \in DOMAIN s |->
                 1 + Cardinality({j \in DOMAIN s :
                                    keys[j] < keys[i] \/ (keys[j] = keys[i] /\ j < i)})]
  IN [r \in DOMAIN s |-> s[CHOOSE i \in DOMAIN s : rank[i] = r]]

\* Stands for a key above every weight.
LastKey == 1000000

\* SupabaseStorage.sortCompounds and sortSearchResults of storage.ts,
\* "molecular_weight": a falsy weight compares as greater than anything
\* (`if (!a.molecularWeight) return 1`), weights ascending otherwise;
\* falsy weights keep their order among themselves.  Any other sortBy drawn
\* here ("relevance") returns the array as it is.
sortCompounds(s, sortBy) ==
  IF sortBy = "molecular_weight"
  THEN StableSortByKey(s, [i \in DOMAIN s |->
                             IF Truthy(Catalog(s[i].cid).molecularWeight)
                             THEN Catalog(s[i].cid).molecularWeight ELSE LastKey])
  ELSE s

\* A raw JSON record as found in a data file, reduced to its cid.  0 stands
\* for a value with none of PC_Compounds, Record, or a truthy cid and name.
RawRecords == {0} \cup CIDs

SeqsUpTo(S, n) == UNION {[1..k -> S] : k \in 0..n}

\* A data file: a JSON object (one record) or a JSON array of records.
\* fname is the number its file name ends with (0: not a number).
FileSet ==
  [isArray : {FALSE}, recs : [1..1 -> RawRecords], fname : {0}]
    \cup [isArray : {TRUE}, recs : UNION {[1..k -> RawRecords] : k \in ArrayLens},
          fname : {0}]

VARIABLES
  files,            \* the *.json files of the data directory, in listing order
  vecDown,          \* cids whose Weaviate object creation fails
  rows,             \* Supabase table `compounds`, in insertion (id) order
  wobjs,            \* Weaviate class `Compound`: the objects, in creation order
  wclient,          \* weaviate.ts `client` is set
  schemaClass,      \* the Weaviate schema holds the class `Compound`
  dataInitialized,  \* SupabaseStorage.dataInitialized
  calls,            \* loadPubChemData calls started so far
  ld,               \* SupabaseStorage.loadPubChemData: the call of each process
  hist,             \* one entry per finished loadPubChemData call
  op,               \* the storage operation each process is executing
  nops,             \* storage operations started so far
  compounds,        \* MemStorage.compounds, by id
  compoundsByCid,   \* MemStorage.compoundsByCid: cid -> id of the compound, 0 if none
  currentCompoundId,\* MemStorage.currentCompoundId
  adocs,            \* AstraDB collection `compounds`: the document compound_<cid>
  aclient,          \* astradb.ts `astraClient` is set
  task,             \* the async task of each file of the current batch
  mld,              \* MemStorage.loadPubChemData: the call
  data,             \* processData.ts: the parsed JSON value given to the Normalizer
  norm,             \* processData.ts: the outcome of processCompoundData(data)
  fetch,            \* downloadPubChem.ts: one call of fetchCompoundByCID
  up,               \* the upload script: its runs and the task of each file
  dl,               \* the batch downloader: progress.json and the running script
  rnd,              \* downloadPubChem.ts: one call of fetchRandomCompounds
  lc                \* scripts/load-compounds.ts: the running script

\* The command-line tools and the Normalizer on its own; no storage action
\* touches their state.
toolVars == <<data, norm, fetch, up, dl, rnd, lc>>
envVars == <<files, vecDown, toolVars>>
storeVars == <<rows, wobjs, wclient, schemaClass, dataInitialized>>
loaderVars == <<calls, ld, hist>>
opVars == <<op, nops>>
memVars == <<compounds, compoundsByCid, currentCompoundId, adocs, aclient, task, mld>>

vars == <<envVars, storeVars, loaderVars, opVars, memVars>>

\* ------------------------------------------------------------ pure helpers
SeqCids(s) == {s[i].cid : i \in DOMAIN s}

RowCids == {rows[i].cid : i \in DOMAIN rows}

NoDupCids(s) == \A i, j \in DOMAIN s : s[i].cid = s[j].cid => i = j

Min(a, b) == IF a <= b THEN a ELSE b

\* Array.prototype.slice(from, to) on a sequence (0-based, end exclusive).
Slice(s, from, to) == SubSeq(s, from + 1, Min(to, Len(s)))

\* Math.ceil(n / d)
CeilDiv(n, d) == (n + d - 1) \div d

\* processCompoundData: the direct format needs a truthy cid and name,
\* anything unrecognised throws 'Unknown PubChem data format'.
processCompoundDataOk(raw) == raw # 0

\* The normalised compound.  rec names the input record it was made from
\* and stands for every field but the cid; call names the loader call.
processCompoundData(raw, rec, call) == [cid |-> raw, rec |-> rec, call |-> call]

\* ----------------------------------------------------------- db/supabase.ts
\* The table has UNIQUE(cid): an INSERT that conflicts with a stored row, or
\* two rows of one INSERT that conflict, fail the statement as a whole.
batchInsertOk_NoUnique(batch) == TRUE

batchInsertOk(batch) ==
  /\ NoDupCids(batch)
  /\ SeqCids(batch) \cap RowCids = {}

AsRows(batch, id) ==
  [i \in DOMAIN batch |->
     [id |-> id + i - 1, cid |-> batch[i].cid, rec |-> batch[i].rec, call |-> batch[i].call]]

\* batchInsertCompounds: one INSERT for the whole array.
batchInsertCompounds(batch) == rows \o AsRows(batch, Len(rows) + 1)

\* createCompound: INSERT ... RETURNING of one row; no existence check.
createCompoundOk(compound) == batchInsertOk(<<compound>>)

createCompound(compound) == batchInsertCompounds(<<compound>>)

\* getCompounds(limit, offset): .range(offset, offset + limit - 1)
getCompounds(limit, offset) == Slice(rows, offset, offset + limit)

\* ----------------------------------------------------------- db/weaviate.ts
\* addCompound: getClient, then data.creator() without an id, which creates
\* a new object on every call.
addCompoundOk(compound) == compound.cid \notin vecDown

addCompound(compound) ==
  Append(wobjs, [cid |-> compound.cid, rec |-> compound.rec, call |-> compound.call])

\* semanticSearch: the nearText / nearVector query with limit and offset
\* (similarity order is represented by creation order); totalResults is the
\* length of the page returned.  The page is sorted by weight only when
\* sortBy asks for it and every result has a truthy weight.
semanticSearch(limit, offset, sortBy) ==
  LET page == Slice(wobjs, offset, offset + limit)
      sorted == IF /\ sortBy = "molecular_weight"
                   /\ \A i \in DOMAIN page : Truthy(Catalog(page[i].cid).molecularWeight)
                THEN sortCompounds(page, sortBy)
                ELSE page
      cids == [i \in DOMAIN sorted |-> sorted[i].cid]
  IN [results |-> cids, totalResults |-> Len(cids),
      totalPages |-> CeilDiv(Len(cids), limit)]

\* -------------------------------------------- SupabaseStorage.loadPubChemData
IdleLd == [pc |-> "idle", caller |-> "none", id |-> 0, limit |-> 0, f |-> 1, r |-> 1,
           loadedCount |-> 0, batchCompounds |-> <<>>, ret |-> 0, threw |-> FALSE]

\* `loadedCount >= jsonData.length`: length is undefined for a JSON object
\* and the comparison is then false.
JsonLenReached(file, n) == file.isArray /\ n >= Len(file.recs)

\* The call up to its first await: list the directory, return 0 when it
\* holds no file.
loadPubChemData(p, limit, caller) ==
  /\ calls' = calls + 1
  /\ IF Len(files) = 0
     THEN /\ ld' = [ld EXCEPT ![p] = [IdleLd EXCEPT !.pc = "done", !.caller = caller,
                                        !.id = calls + 1, !.limit = limit]]
          /\ hist' = Append(hist, [call |-> calls + 1, limit |-> limit, ret |-> 0, threw |-> FALSE,
                                  nrows |-> Len(rows)])
     ELSE /\ ld' = [ld EXCEPT ![p] = [IdleLd EXCEPT !.pc = "loop", !.caller = caller,
                                        !.id = calls + 1, !.limit = limit]]
          /\ UNCHANGED hist

\* The route and the scripts call loadPubChemData(limit).
LoadStart(p) ==
  /\ ld[p].pc \in {"idle", "done"}
  /\ calls < MaxRuns
  /\ \E limit \in Limits : loadPubChemData(p, limit, "route")
  /\ UNCHANGED <<envVars, memVars, storeVars, opVars>>

\* One turn of the two nested for-loops, up to the await that leaves the
\* record: the normalisation, the push and the Weaviate write.
LdRecord(p) ==
  LET l == ld[p] IN
  /\ l.pc = "loop"
  /\ IF l.f > Len(files) \/ l.loadedCount >= l.limit
     THEN /\ ld' = [ld EXCEPT ![p].pc = "final"]
          /\ UNCHANGED <<wobjs, wclient>>
     ELSE IF l.r > Len(files[l.f].recs)
     THEN /\ ld' = [ld EXCEPT ![p].f = @ + 1, ![p].r = 1]
          /\ UNCHANGED <<wobjs, wclient>>
     ELSE LET raw == files[l.f].recs[l.r]
              compound == processCompoundData(raw, <<l.f, l.r>>, l.id)
              pushed == Append(l.batchCompounds, compound)
              n == l.loadedCount + 1
          IN IF ~processCompoundDataOk(raw)
             THEN /\ ld' = [ld EXCEPT ![p].r = @ + 1]
                  /\ UNCHANGED <<wobjs, wclient>>
             ELSE IF ~addCompoundOk(compound)
             THEN /\ ld' = [ld EXCEPT ![p].r = @ + 1, ![p].batchCompounds = pushed]
                  /\ wclient' = TRUE
                  /\ UNCHANGED wobjs
             ELSE /\ wobjs' = addCompound(compound)
                  /\ wclient' = TRUE
                  /\ ld' = IF \/ Len(pushed) >= FlushSize
                              \/ n >= l.limit
                              \/ JsonLenReached(files[l.f], n)
                           THEN [ld EXCEPT ![p].pc = "flush", ![p].loadedCount = n,
                                           ![p].batchCompounds = pushed]
                           ELSE [ld EXCEPT ![p].r = @ + 1, ![p].loadedCount = n,
                                           ![p].batchCompounds = pushed]
  /\ UNCHANGED <<envVars, memVars, rows, schemaClass, dataInitialized, calls, hist, opVars>>

\* The in-loop batch insert; its error is caught by the per-record catch,
\* which leaves batchCompounds as it was.
LdFlush(p) ==
  LET l == ld[p] IN
  /\ l.pc = "flush"
  /\ IF batchInsertOk(l.batchCompounds)
     THEN /\ rows' = batchInsertCompounds(l.batchCompounds)
          /\ ld' = [ld EXCEPT ![p].pc = "loop", ![p].r = @ + 1,
                              ![p].batchCompounds = <<>>]
     ELSE /\ ld' = [ld EXCEPT ![p].pc = "loop", ![p].r = @ + 1]
          /\ UNCHANGED rows
  /\ UNCHANGED <<envVars, memVars, wobjs, wclient, schemaClass, dataInitialized, calls, hist,
                 opVars>>

\* After the loops: insert what is left, return loadedCount.  An error of
\* this insert reaches the outer catch, which rethrows.
LdFinal(p) ==
  LET l == ld[p]
      ok == l.batchCompounds = <<>> \/ batchInsertOk(l.batchCompounds)
      newRows == IF l.batchCompounds # <<>> /\ ok
                 THEN batchInsertCompounds(l.batchCompounds) ELSE rows
  IN /\ l.pc = "final"
     /\ rows' = newRows
     /\ ld' = [ld EXCEPT ![p].pc = "done", ![p].ret = l.loadedCount, ![p].threw = ~ok]
     /\ hist' = Append(hist, [call |-> l.id, limit |-> l.limit, ret |-> l.loadedCount, threw |-> ~ok,
                             nrows |-> Len(newRows)])
     /\ UNCHANGED <<envVars, memVars, wobjs, wclient, schemaClass, dataInitialized, calls, opVars>>

\* ------------------------------------------- SupabaseStorage: the operations
NoResp == [results |-> <<>>, totalResults |-> 0, totalPages |-> 0]

IdleOp == [kind |-> "none", pc |-> "idle", cid |-> 0, rec |-> <<0, 0>>,
           existed |-> FALSE, row |-> 0, threw |-> FALSE,
           query |-> <<>>, searchType |-> "", molecularWeight |-> "",
           chemicalClass |-> <<>>, sort |-> "", page |-> 0, limit |-> 0,
           vecFailed |-> FALSE, fallback |-> NoResp, resp |-> NoResp]

Throw(p) == [op EXCEPT ![p].pc = "done", ![p].threw = TRUE]

\* createCompound(insertCompound), up to the await of the Supabase insert.
\* The record of the n-th operation carries the content tag <<0, n>>.
CreateStart(p) ==
  /\ op[p].pc \in {"idle", "done"}
  /\ nops < MaxOps
  /\ nops' = nops + 1
  /\ \E cid \in CIDs :
       op' = [op EXCEPT ![p] = [IdleOp EXCEPT !.kind = "create", !.pc = "insert",
                                             !.cid = cid, !.rec = <<0, nops + 1>>]]
  /\ UNCHANGED <<envVars, memVars, storeVars, loaderVars>>

\* supabaseClient.createCompound returns or throws; then, still in the try,
\* the call of weaviateClient.addCompound.
CrInsert(p) ==
  LET o == op[p]
      compound == [cid |-> o.cid, rec |-> o.rec, call |-> 0]
      existed == o.cid \in RowCids
  IN /\ o.pc = "insert"
     /\ IF createCompoundOk(compound)
        THEN /\ rows' = createCompound(compound)
             /\ op' = [op EXCEPT ![p].pc = "vector", ![p].existed = existed,
                                 ![p].row = Len(rows) + 1]
        ELSE /\ op' = [Throw(p) EXCEPT ![p].existed = existed]
             /\ UNCHANGED rows
     /\ UNCHANGED <<envVars, memVars, wobjs, wclient, schemaClass, dataInitialized, loaderVars,
                    nops>>

\* weaviateClient.addCompound returns or throws; the catch rethrows, the row
\* inserted before stays.
CrVector(p) ==
  LET o == op[p]
      compound == [cid |-> o.cid, rec |-> o.rec, call |-> 0]
  IN /\ o.pc = "vector"
     /\ wclient' = TRUE
     /\ IF addCompoundOk(compound)
        THEN /\ wobjs' = addCompound(compound)
             /\ op' = [op EXCEPT ![p].pc = "done"]
        ELSE /\ op' = [Throw(p) EXCEPT ![p].row = 0]
             /\ UNCHANGED wobjs
     /\ UNCHANGED <<envVars, memVars, rows, schemaClass, dataInitialized, loaderVars, nops>>

\* searchCompounds(searchQuery), up to its first await: ensureInitialized
\* calls initializeDatabase when dataInitialized is false, and that runs to
\* the first await inside weaviate getClient / initializeSchema.
SearchStart(p) ==
  /\ op[p].pc \in {"idle", "done"}
  /\ nops < MaxOps
  /\ nops' = nops + 1
  /\ op' = [op EXCEPT ![p] = [IdleOp EXCEPT !.kind = "search",
                                !.pc = IF dataInitialized THEN "search"
                                       ELSE IF wclient THEN "schemaGet" ELSE "meta"]]
  /\ wclient' = (wclient \/ ~dataInitialized)
  /\ UNCHANGED <<envVars, memVars, rows, wobjs, schemaClass, dataInitialized, loaderVars>>

\* getClient: the connection test answers; a failure is thrown up through
\* initializeSchema, initializeDatabase and ensureInitialized, which is
\* awaited outside the try of searchCompounds.
InitMeta(p) ==
  /\ op[p].pc = "meta"
  /\ \E ok \in BOOLEAN :
       op' = IF ok THEN [op EXCEPT ![p].pc = "schemaGet"] ELSE Throw(p)
  /\ UNCHANGED <<envVars, memVars, storeVars, loaderVars, nops>>

\* initializeSchema: schema.getter answers; the class is there (return, and
\* call supabaseClient.initializeDatabase) or classCreator is called.
InitSchemaGet(p) ==
  /\ op[p].pc = "schemaGet"
  /\ op' = [op EXCEPT ![p].pc = IF schemaClass THEN "supabase" ELSE "schemaCreate"]
  /\ UNCHANGED <<envVars, memVars, storeVars, loaderVars, nops>>

\* classCreator answers: Weaviate rejects the creation of a class that
\* exists by now.
InitSchemaCreate(p) ==
  /\ op[p].pc = "schemaCreate"
  /\ IF schemaClass
     THEN /\ op' = Throw(p)
          /\ UNCHANGED schemaClass
     ELSE /\ schemaClass' = TRUE
          /\ op' = [op EXCEPT ![p].pc = "supabase"]
  /\ UNCHANGED <<envVars, memVars, rows, wobjs, wclient, dataInitialized, loaderVars, nops>>

\* supabaseClient.initializeDatabase: testConnection and
\* createTablesIfNotExist only read; then the call of getCompounds(10).
InitSupabase(p) ==
  /\ op[p].pc = "supabase"
  /\ op' = [op EXCEPT ![p].pc = "probe"]
  /\ UNCHANGED <<envVars, memVars, storeVars, loaderVars, nops>>

\* getCompounds(10) answers: an empty table starts the seed load
\* loadPubChemData(20), otherwise initialization is complete.
InitProbe(p) ==
  /\ op[p].pc = "probe"
  /\ IF Len(getCompounds(10, 0)) = 0
     THEN /\ loadPubChemData(p, SeedLimit, "init")
          /\ op' = [op EXCEPT ![p].pc = "seed"]
          /\ UNCHANGED dataInitialized
     ELSE /\ dataInitialized' = TRUE
          /\ op' = [op EXCEPT ![p].pc = "search"]
          /\ UNCHANGED loaderVars
  /\ UNCHANGED <<envVars, memVars, rows, wobjs, wclient, schemaClass, nops>>

\* The seed load has returned or thrown.
InitSeedDone(p) ==
  /\ op[p].pc = "seed"
  /\ ld[p].pc = "done"
  /\ IF ld[p].threw
     THEN /\ op' = Throw(p)
          /\ UNCHANGED dataInitialized
     ELSE /\ dataInitialized' = TRUE
          /\ op' = [op EXCEPT ![p].pc = "search"]
  /\ ld' = [ld EXCEPT ![p] = IdleLd]
  /\ UNCHANGED <<envVars, memVars, rows, wobjs, wclient, schemaClass, calls, hist, nops>>

\* After ensureInitialized: the request is destructured and the backend of
\* its searchType is called.
Destructure(o, req) ==
  [o EXCEPT !.query = req.query, !.searchType = req.searchType,
            !.molecularWeight = req.molecularWeight,
            !.chemicalClass = req.chemicalClass, !.sort = req.sort,
            !.page = req.page, !.limit = req.limit]

SearchBeginWith(p, reqs) ==
  /\ op[p].pc = "search"
  /\ \E req \in reqs :
       op' = [op EXCEPT ![p] = [Destructure(op[p], req) EXCEPT !.pc = req.searchType]]
  /\ UNCHANGED <<envVars, memVars, storeVars, loaderVars, nops>>

SearchBegin(p) == SearchBeginWith(p, Requests)

\* The keyword search over the first 1000 rows: filter on the text fields,
\* the weight bucket and the chemical class, sort, pagination.
keywordSearch(o) ==
  LET fetched == getCompounds(KeywordFetch, 0)
      keep(row) ==
        /\ matchesKeyword(Catalog(row.cid), o.query)
        /\ \/ o.molecularWeight \in {"", "all"}
           \/ filterByMolecularWeight(Catalog(row.cid), o.molecularWeight)
        /\ \/ o.chemicalClass \in {<<>>, <<"a", "l", "l">>}
           \/ matchesChemClass(Catalog(row.cid), o.chemicalClass)
      filteredCompounds == SelectSeq(fetched, keep)
      sortedCompounds == sortCompounds(filteredCompounds, o.sort)
      totalResults == Len(sortedCompounds)
      paginatedCompounds == Slice(sortedCompounds, (o.page - 1) * o.limit, o.page * o.limit)
  IN [results |-> [i \in DOMAIN paginatedCompounds |-> paginatedCompounds[i].cid],
      totalResults |-> totalResults,
      totalPages |-> CeilDiv(totalResults, o.limit)]

\* weaviateClient.semanticSearch answers or throws; searchCompounds returns
\* the answer as it is, its catch turns the error into
\* 'Cannot search compounds in database'.  (fallback notes what the keyword
\* search answers at the moment of the failure.)
SearchSemantic(p) ==
  LET o == op[p] IN
  /\ o.pc = "semantic"
  /\ wclient' = TRUE
  /\ \E ok \in BOOLEAN :
       op' = IF ok
             THEN [op EXCEPT ![p].pc = "done",
                             ![p].resp = semanticSearch(o.limit, (o.page - 1) * o.limit,
                                                       o.sort)]
             ELSE [Throw(p) EXCEPT ![p].vecFailed = TRUE,
                                   ![p].fallback = keywordSearch(o)]
  /\ UNCHANGED <<envVars, memVars, rows, wobjs, schemaClass, dataInitialized, loaderVars, nops>>

SearchKeyword(p) ==
  LET o == op[p] IN
  /\ o.pc = "keyword"
  /\ op' = [op EXCEPT ![p].pc = "done",
                      ![p].resp = keywordSearch(o)]
  /\ UNCHANGED <<envVars, memVars, storeVars, loaderVars, nops>>

\* ---------------------------------------------------------------------------
\* The AstraDB variant: MemStorage with the batch-parallel loader
\* ---------------------------------------------------------------------------
\* Files of the data directory named pubchem_compound_<x>.json, in sorted
\* order; fname is parseInt(<x>), 0 when that is NaN.  A file holds one
\* record, an empty array or an array of two compounds.
MemFileSet ==
  [isArray : {FALSE}, recs : [1..1 -> RawRecords], fname : {0} \cup CIDs]
    \cup [isArray : {TRUE}, recs : {<<>>} \cup [1..2 -> CIDs], fname : {0} \cup CIDs]

\* The find by `name: {$regex: ".*<query>.*", $options: "i"}`: the compounds
\* whose name contains the query, case-insensitive (the queries drawn hold
\* no regex metacharacter).
NameHits(q) ==
  {c \in DOMAIN adocs : includes(toLowerCase(Catalog(c).name), toLowerCase(q))}

NoDoc == [present |-> FALSE, rec |-> <<0, 0>>, call |-> 0]

FileIds == 1..MaxFiles

IdleTask == [pc |-> "none", cid |-> 0, threw |-> FALSE, existing |-> 0, created |-> 0,
             loaded |-> FALSE]

IdleMld == [pc |-> "idle", id |-> 0, limit |-> 0, filesToProcess |-> <<>>, i |-> 0,
            loadedCount |-> 0, ret |-> 0]

\* A continuation that follows an await on in-memory code (processCompoundData,
\* MemStorage.getCompound, MemStorage.createCompound) is a microtask.  The
\* event loop runs the pending microtasks before it delivers another I/O
\* completion or request.
MicrotaskPending ==
  \E f \in DOMAIN task : task[f].pc \in {"processed", "checked", "created"}

\* MemStorage.getCompound: compoundsByCid.get(cid); 0 is undefined.
Mem_getCompound_Miss(cid) == 0

Mem_getCompound(cid) == compoundsByCid[cid]

\* MemStorage.createCompound: a new id on every call, isProcessed false, set
\* in both maps (the entry of compoundsByCid is replaced).
Mem_createCompound(compound) ==
  /\ currentCompoundId' = currentCompoundId + 1
  /\ compounds' = Append(compounds, [id |-> currentCompoundId, cid |-> compound.cid,
                                   rec |-> compound.rec, call |-> compound.call,
                                   isProcessed |-> FALSE])
  /\ compoundsByCid' = [compoundsByCid EXCEPT ![compound.cid] = currentCompoundId]

\* Skip the files whose name carries the cid of a stored compound (only when
\* some compound is stored); keep the order; take the first `limit`.
RECURSIVE FilterIn(_, _)
FilterIn(s, S) ==
  IF s = <<>> THEN <<>>
  ELSE (IF Head(s) \in S THEN <<Head(s)>> ELSE <<>>) \o FilterIn(Tail(s), S)

availableFiles ==
  LET all == [i \in DOMAIN files |-> i]
      existingCids == {c \in CIDs : compoundsByCid[c] # 0}
  IN IF existingCids # {}
     THEN FilterIn(all, {i \in DOMAIN files :
                            files[i].fname # 0 /\ files[i].fname \notin existingCids})
     ELSE all

Batch(filesToProcess, i) ==
  {filesToProcess[k] : k \in (i + 1)..Min(i + batchSize, Len(filesToProcess))}

StartBatch(b) == [f \in DOMAIN task |-> IF f \in b THEN [IdleTask EXCEPT !.pc = "read"]
                                       ELSE IdleTask]

\* MemStorage.loadPubChemData(limit), up to the await of the first batch.
Mem_loadPubChemData ==
  /\ mld.pc \in {"idle", "done"}
  /\ ~MicrotaskPending
  /\ calls < MaxRuns
  /\ calls' = calls + 1
  /\ \E limit \in Limits :
       LET filesToProcess == Slice(availableFiles, 0, limit) IN
       IF Len(files) = 0 \/ filesToProcess = <<>>
       THEN /\ mld' = [IdleMld EXCEPT !.pc = "done", !.id = calls + 1, !.limit = limit]
            /\ hist' = Append(hist, [call |-> calls + 1, limit |-> limit, ret |-> 0,
                                    threw |-> FALSE, nrows |-> Len(rows)])
            /\ task' = StartBatch({})
       ELSE /\ mld' = [IdleMld EXCEPT !.pc = "batch", !.id = calls + 1, !.limit = limit,
                                      !.filesToProcess = filesToProcess]
            /\ task' = StartBatch(Batch(filesToProcess, 0))
            /\ UNCHANGED hist
  /\ UNCHANGED <<envVars, storeVars, ld, opVars, compounds, compoundsByCid,
                 currentCompoundId, adocs, aclient>>

\* readJSON answers: the first element of the file is handed to
\* processCompoundData (every path of the loop body returns); an empty
\* array ends the task with undefined.
TkRead(f) ==
  /\ task[f].pc = "read"
  /\ ~MicrotaskPending
  /\ task' = IF Len(files[f].recs) = 0
             THEN [task EXCEPT ![f].pc = "done"]
             ELSE [task EXCEPT ![f].pc = "processed", ![f].cid = files[f].recs[1],
                               ![f].threw = ~processCompoundDataOk(files[f].recs[1])]
  /\ UNCHANGED <<envVars, storeVars, loaderVars, opVars, compounds, compoundsByCid,
                 currentCompoundId, adocs, aclient, mld>>

\* After `await processCompoundData`: an error returns null, otherwise
\* this.getCompound(compound.cid) is called.
TkProcessed(f) ==
  /\ task[f].pc = "processed"
  /\ task' = IF task[f].threw
             THEN [task EXCEPT ![f].pc = "done"]
             ELSE [task EXCEPT ![f].pc = "checked",
                               ![f].existing = Mem_getCompound(task[f].cid)]
  /\ UNCHANGED <<envVars, storeVars, loaderVars, opVars, compounds, compoundsByCid,
                 currentCompoundId, adocs, aclient, mld>>

\* After `await this.getCompound`: an existing compound returns null,
\* otherwise this.createCompound(compound) is called.
TkChecked(f) ==
  /\ task[f].pc = "checked"
  /\ IF task[f].existing # 0
     THEN /\ task' = [task EXCEPT ![f].pc = "done"]
          /\ UNCHANGED <<compounds, compoundsByCid, currentCompoundId>>
     ELSE /\ Mem_createCompound([cid |-> task[f].cid, rec |-> <<f, 1>>, call |-> mld.id])
          /\ task' = [task EXCEPT ![f].pc = "created", ![f].created = currentCompoundId]
  /\ UNCHANGED <<envVars, storeVars, loaderVars, opVars, adocs, aclient, mld>>

\* After `await this.createCompound`: supabaseClient.addCompound is called
\* and sends its existence query.
TkCreated(f) ==
  /\ task[f].pc = "created"
  /\ task' = [task EXCEPT ![f].pc = "supaSelect"]
  /\ UNCHANGED <<envVars, storeVars, loaderVars, opVars, compounds, compoundsByCid,
                 currentCompoundId, adocs, aclient, mld>>

\* supabase addCompound, the existence query answers: an error is thrown
\* (and caught by the loader), an existing row is returned, otherwise the
\* insert is sent.  Leaving addCompound, the loader calls
\* astraDbClient.addCompound.
TkSupaSelect(f) ==
  /\ task[f].pc = "supaSelect"
  /\ ~MicrotaskPending
  /\ \E ok \in BOOLEAN :
       task' = IF ok /\ task[f].cid \notin RowCids
               THEN [task EXCEPT ![f].pc = "supaInsert"]
               ELSE [task EXCEPT ![f].pc = "astra"]
  /\ UNCHANGED <<envVars, storeVars, loaderVars, opVars, compounds, compoundsByCid,
                 currentCompoundId, adocs, aclient, mld>>

\* supabase addCompound, the insert answers; its error is caught by the
\* loader.
TkSupaInsert(f) ==
  LET compound == [cid |-> task[f].cid, rec |-> <<f, 1>>, call |-> mld.id] IN
  /\ task[f].pc = "supaInsert"
  /\ ~MicrotaskPending
  /\ rows' = IF createCompoundOk(compound) THEN createCompound(compound) ELSE rows
  /\ task' = [task EXCEPT ![f].pc = "astra"]
  /\ UNCHANGED <<envVars, wobjs, wclient, schemaClass, dataInitialized, loaderVars,
                 opVars, compounds, compoundsByCid, currentCompoundId, adocs, aclient,
                 mld>>

\* astradb getClient and the request that follows: "null" is no client
\* (the connection cannot be made), "error" a failed request on a client.
AstraOutcomes == {"ok", "error", "null"}

AstraOutcomeOk(out) == out = "null" => ~aclient

\* astradb addCompound answers: without a client it skips, an insert error
\* is logged; collection.create(`compound_<cid>`) writes the document of
\* that id.  It never throws; the loader then sets isProcessed and returns
\* the created compound.
TkAstra(f) ==
  /\ task[f].pc = "astra"
  /\ ~MicrotaskPending
  /\ \E out \in AstraOutcomes :
       /\ AstraOutcomeOk(out)
       /\ aclient' = (out # "null")
       /\ adocs' = IF out = "ok"
                   THEN [adocs EXCEPT ![task[f].cid] =
                           [present |-> TRUE, rec |-> <<f, 1>>, call |-> mld.id]]
                   ELSE adocs
  /\ compounds' = [compounds EXCEPT ![task[f].created].isProcessed = TRUE]
  /\ task' = [task EXCEPT ![f].pc = "done", ![f].loaded = TRUE]
  /\ UNCHANGED <<envVars, storeVars, loaderVars, opVars, compoundsByCid,
                 currentCompoundId, mld>>

\* `await Promise.all(batchPromises)`: no task rejects (each catches its
\* errors and returns null), so the await ends when every task has returned.
BatchSettled_First(b) == \E f \in b : task[f].pc = "done"

BatchSettled(b) == \A f \in b : task[f].pc = "done"

\* Promise.all of the batch resolves: count the truthy results, start the
\* next batch or return loadedCount.
BatchSettle ==
  LET b == Batch(mld.filesToProcess, mld.i)
      n == mld.loadedCount + Cardinality({f \in b : task[f].loaded})
      i == mld.i + batchSize
  IN /\ mld.pc = "batch"
     /\ BatchSettled(b)
     /\ IF i < Len(mld.filesToProcess)
        THEN /\ mld' = [mld EXCEPT !.i = i, !.loadedCount = n]
             /\ task' = StartBatch(Batch(mld.filesToProcess, i))
             /\ UNCHANGED hist
        ELSE /\ mld' = [mld EXCEPT !.pc = "done", !.loadedCount = n, !.ret = n]
             /\ task' = StartBatch({})
             /\ hist' = Append(hist, [call |-> mld.id, limit |-> mld.limit, ret |-> n,
                                     threw |-> FALSE, nrows |-> Len(rows)])
     /\ UNCHANGED <<envVars, storeVars, calls, ld, opVars, compounds, compoundsByCid,
                    currentCompoundId, adocs, aclient>>

\* ----------------------------------------------------------- specifications
\* No tool has been started.
ToolsIdle ==
  /\ data = <<>>
  /\ norm = [status |-> "none"]
  /\ fetch = [pc |-> "idle"]
  /\ up = [pc |-> "idle", run |-> 0, task |-> [f \in 1..MaxFiles |-> "none"]]
  /\ dl = [running |-> FALSE, pc |-> "idle"]
  /\ rnd = [pc |-> "idle"]
  /\ lc = [pc |-> "idle", limit |-> Null, nfiles |-> 0, i |-> 0, retryCount |-> 0,
          totalLoaded |-> 0, ingested |-> <<>>]

Quiet ==
  /\ rows = <<>>
  /\ wobjs = <<>>
  /\ calls = 0
  /\ ld = [p \in Procs |-> IdleLd]
  /\ hist = <<>>
  /\ op = [p \in Procs |-> IdleOp]
  /\ nops = 0

MemQuiet ==
  /\ compounds = <<>>
  /\ compoundsByCid = [c \in CIDs |-> 0]
  /\ currentCompoundId = 1
  /\ adocs = [c \in CIDs |-> NoDoc]
  /\ aclient = FALSE
  /\ task = [f \in FileIds |-> IdleTask]
  /\ mld = IdleMld

\* The Bulk Loader called twice through the route, on an initialised store.
InitLoad ==
  /\ ToolsIdle
  /\ files \in SeqsUpTo(FileSet, MaxFiles)
  /\ vecDown \in SUBSET CIDs
  /\ wclient = FALSE
  /\ schemaClass = TRUE
  /\ dataInitialized = TRUE
  /\ Quiet
  /\ MemQuiet

NextLoad == LoadStart(1) \/ LdRecord(1) \/ LdFlush(1) \/ LdFinal(1)

SpecLoad == InitLoad /\ [][NextLoad]_vars

\* createCompound and searchCompounds of two clients on an initialised store.
InitApi ==
  /\ ToolsIdle
  /\ files = <<>>
  /\ vecDown \in SUBSET CIDs
  /\ wclient = FALSE
  /\ schemaClass = TRUE
  /\ dataInitialized = TRUE
  /\ Quiet
  /\ MemQuiet

NextApi ==
  \E p \in Procs :
    \/ CreateStart(p) \/ CrInsert(p) \/ CrVector(p)
    \/ SearchStart(p) \/ SearchBegin(p) \/ SearchSemantic(p) \/ SearchKeyword(p)

SpecApi == InitApi /\ [][NextApi]_vars

\* searchCompounds of two clients on a store that is not yet initialised.
InitInit ==
  /\ ToolsIdle
  /\ files \in SeqsUpTo(FileSet, MaxSeedFiles)
  /\ vecDown \in SUBSET CIDs
  /\ wclient = FALSE
  /\ schemaClass = FALSE
  /\ dataInitialized = FALSE
  /\ Quiet
  /\ MemQuiet

NextInit ==
  \E p \in Procs :
    \/ SearchStart(p) \/ InitMeta(p) \/ InitSchemaGet(p) \/ InitSchemaCreate(p)
    \/ InitSupabase(p) \/ InitProbe(p) \/ InitSeedDone(p)
    \/ LdRecord(p) \/ LdFlush(p) \/ LdFinal(p)
    \/ SearchBegin(p) \/ SearchSemantic(p) \/ SearchKeyword(p)

SpecInit == InitInit /\ [][NextInit]_vars

\* The documents of the collection, in the order the find returns them
\* (ascending cid stands for the sort order).
RECURSIVE Ascending(_)
Ascending(S) ==
  IF S = {} THEN <<>>
  ELSE LET m == CHOOSE x \in S : \A y \in S : x <= y
       IN <<m>> \o Ascending(S \ {m})

DocCids == {c \in DOMAIN adocs : adocs[c].present}

\* MemStorage keyword match: the query in the name, the formula or the
\* description, case-insensitive.
Mem_matchesKeyword(compound, query) ==
  LET searchTerm == toLowerCase(query) IN
  \/ includes(toLowerCase(compound.name), searchTerm)
  \/ includes(toLowerCase(compound.formula), searchTerm)
  \/ includes(toLowerCase(compound.description), searchTerm)

\* MemStorage.sortCompounds and sortSearchResults, "molecular_weight":
\* `a.molecularWeight || 0` ascending, so a falsy weight sorts as 0.  For
\* "relevance" sortCompounds returns the array and sortSearchResults sorts
\* by similarity, which is 0 for every keyword result: the order stays.
Mem_sortCompounds(s, sortBy) ==
  IF sortBy = "molecular_weight"
  THEN StableSortByKey(s, [i \in DOMAIN s |->
                             IF Truthy(Catalog(s[i].cid).molecularWeight)
                             THEN Catalog(s[i].cid).molecularWeight ELSE 0])
  ELSE s

\* MemStorage keyword search: text filter (skipped for a blank query),
\* weight bucket, chemical class (Array.includes: an element equal to the
\* requested class), sort, pagination; totalResults is the number of
\* matches.
Mem_keywordSearch(o) ==
  LET keep(compound) ==
        /\ TrimsToEmpty(o.query) \/ Mem_matchesKeyword(Catalog(compound.cid), o.query)
        /\ \/ o.molecularWeight \in {"", "all"}
           \/ filterByMolecularWeight(Catalog(compound.cid), o.molecularWeight)
        /\ \/ o.chemicalClass \in {<<>>, <<"a", "l", "l">>}
           \/ \E i \in DOMAIN Catalog(compound.cid).chemicalClass :
                Catalog(compound.cid).chemicalClass[i] = o.chemicalClass
      filteredCompounds == SelectSeq(compounds, keep)
      sortedCompounds == Mem_sortCompounds(filteredCompounds, o.sort)
      offset == (o.page - 1) * o.limit
      pagedCompounds == Slice(sortedCompounds, offset, offset + o.limit)
      sortedResults == Mem_sortCompounds(pagedCompounds, o.sort)
  IN [results |-> [i \in DOMAIN sortedResults |-> sortedResults[i].cid],
      totalResults |-> Len(filteredCompounds),
      totalPages |-> CeilDiv(Len(filteredCompounds), o.limit)]

\* astradb semanticSearch, filterConditions.molecularWeight: the range
\* {$gte, $lte} of the requested bucket, [0, 10000] for any other truthy
\* value; no condition without a bucket.  A null weight passes no range.
weightRange(filter) ==
  CASE filter = "lt_100" -> <<0, 100>>
    [] filter = "100-200" -> <<100, 200>>
    [] filter = "200-500" -> <<200, 500>>
    [] filter = "gt_500" -> <<500, 10000>>
    [] OTHER -> <<0, 10000>>

filterConditions(compound, o) ==
  \/ o.molecularWeight = ""
  \/ /\ compound.molecularWeight # Null
     /\ compound.molecularWeight >= weightRange(o.molecularWeight)[1]
     /\ compound.molecularWeight <= weightRange(o.molecularWeight)[2]

\* MemStorage.searchCompounds(searchQuery): a semantic request is handed to
\* astradb semanticSearch, whose answer is returned as it is; a keyword
\* request is answered from memory.  (semanticSearch catches all its errors,
\* so the catch that would fall back to keyword search is never entered.)
Mem_searchCompoundsWith(p, reqs) ==
  /\ op[p].pc \in {"idle", "done"}
  /\ ~MicrotaskPending
  /\ \E req \in reqs :
       LET o == Destructure([IdleOp EXCEPT !.kind = "search"], req)
       IN op' = [op EXCEPT ![p] =
                   IF req.searchType = "semantic"
                   THEN [o EXCEPT !.pc = "find"]
                   ELSE [o EXCEPT !.pc = "done", !.resp = Mem_keywordSearch(o)]]
  /\ UNCHANGED <<envVars, storeVars, loaderVars, nops, memVars>>

Mem_searchCompounds(p) == Mem_searchCompoundsWith(p, Requests)

\* (fallback notes what the keyword search answers at that moment.)
EmptySuccess(p) ==
  [op EXCEPT ![p].pc = "done", ![p].vecFailed = TRUE, ![p].resp = NoResp,
             ![p].fallback = Mem_keywordSearch(op[p])]

\* astradb semanticSearch, getClient and the find answer: without a client,
\* or on an error, an empty response is returned.  The find is by name with
\* the filter conditions among its options, or by the filter conditions
\* alone when the query is blank.
AstraFind(p) ==
  LET o == op[p]
      skip == (o.page - 1) * o.limit
      hits == {c \in DocCids :
                 /\ TrimsToEmpty(o.query) \/ c \in NameHits(o.query)
                 /\ filterConditions(Catalog(c), o)}
      found == FilterIn(Ascending(DocCids), hits)
  IN /\ o.pc = "find"
     /\ ~MicrotaskPending
     /\ \E out \in AstraOutcomes :
          /\ AstraOutcomeOk(out)
          /\ aclient' = (out # "null")
          /\ op' = IF out = "ok"
                   THEN [op EXCEPT ![p].pc = "count",
                                   ![p].resp.results = Slice(found, skip, skip + o.limit)]
                   ELSE EmptySuccess(p)
     /\ UNCHANGED <<envVars, storeVars, loaderVars, nops, compounds, compoundsByCid,
                    currentCompoundId, adocs, task, mld>>

\* The count query answers: totalResults counts the documents that pass the
\* filter conditions, not the matches of the name.
AstraCount(p) ==
  LET o == op[p]
      total == Cardinality({c \in DocCids : filterConditions(Catalog(c), o)})
  IN /\ o.pc = "count"
     /\ ~MicrotaskPending
     /\ \E ok \in BOOLEAN :
          op' = IF ok
                THEN [op EXCEPT ![p].pc = "done", ![p].resp.totalResults = total,
                                ![p].resp.totalPages = CeilDiv(total, o.limit)]
                ELSE EmptySuccess(p)
     /\ UNCHANGED <<envVars, storeVars, loaderVars, nops, memVars>>

\* The loader of MemStorage over an empty memory store.
InitMem ==
  /\ ToolsIdle
  /\ files \in SeqsUpTo(MemFileSet, MaxFiles)
  /\ vecDown = {}
  /\ wclient = FALSE
  /\ schemaClass = FALSE
  /\ dataInitialized = TRUE
  /\ Quiet
  /\ MemQuiet

NextMem ==
  \/ Mem_loadPubChemData
  \/ \E f \in FileIds :
       \/ TkRead(f) \/ TkProcessed(f) \/ TkChecked(f) \/ TkCreated(f)
       \/ TkSupaSelect(f) \/ TkSupaInsert(f) \/ TkAstra(f)
  \/ BatchSettle

SpecMem == InitMem /\ [][NextMem]_vars

\* Searches of MemStorage while the loader ingests a small directory.
InitMemSearch ==
  /\ ToolsIdle
  /\ files \in SeqsUpTo(MemFileSet, MaxSeedFiles)
  /\ vecDown = {}
  /\ wclient = FALSE
  /\ schemaClass = FALSE
  /\ dataInitialized = TRUE
  /\ Quiet
  /\ MemQuiet

NextMemSearch ==
  \/ NextMem
  \/ Mem_searchCompounds(1) \/ AstraFind(1) \/ AstraCount(1)

SpecMemSearch == InitMemSearch /\ [][NextMemSearch]_vars

\* A load of more files than one batch holds, observed from the moment all
\* but MaxFiles tasks of the first batch have returned: the directory starts
\* with files that hold an empty array (their tasks end at the file read),
\* the last MaxFiles files of the first batch are being read, and
\* MaxSeedFiles more files wait for the second batch.  The call is loadPubChemData() with
\* its default limit.
DefaultLimit == 1000

BatchFileIds == 1..(batchSize + MaxSeedFiles)

EmptyArrayFile == [isArray |-> TRUE, recs |-> <<>>, fname |-> 0]

ObjectFiles == [isArray : {FALSE}, recs : [1..1 -> RawRecords], fname : {0}]

InitBatch ==
  /\ ToolsIdle
  /\ \E last \in [1..(MaxFiles + MaxSeedFiles) -> ObjectFiles] :
       files = [f \in BatchFileIds |->
                  IF f <= batchSize - MaxFiles THEN EmptyArrayFile
                  ELSE last[f - (batchSize - MaxFiles)]]
  /\ vecDown = {}
  /\ wclient = FALSE
  /\ schemaClass = FALSE
  /\ dataInitialized = TRUE
  /\ rows = <<>>
  /\ wobjs = <<>>
  /\ calls = 1
  /\ ld = [p \in Procs |-> IdleLd]
  /\ hist = <<>>
  /\ op = [p \in Procs |-> IdleOp]
  /\ nops = 0
  /\ compounds = <<>>
  /\ compoundsByCid = [c \in CIDs |-> 0]
  /\ currentCompoundId = 1
  /\ adocs = [c \in CIDs |-> NoDoc]
  /\ aclient = FALSE
  /\ mld = [IdleMld EXCEPT !.pc = "batch", !.id = 1, !.limit = DefaultLimit,
                            !.filesToProcess = [k \in BatchFileIds |-> k]]
  /\ task = [f \in BatchFileIds |->
               IF f <= batchSize - MaxFiles THEN [IdleTask EXCEPT !.pc = "done"]
               ELSE IF f <= batchSize THEN [IdleTask EXCEPT !.pc = "read"]
               ELSE IdleTask]

NextBatch ==
  \/ \E f \in BatchFileIds :
       \/ TkRead(f) \/ TkProcessed(f) \/ TkChecked(f) \/ TkCreated(f)
       \/ TkSupaSelect(f) \/ TkSupaInsert(f) \/ TkAstra(f)
  \/ BatchSettle

SpecBatch == InitBatch /\ [][NextBatch]_vars

\* The loader of MemStorage over a directory of array files whose elements
\* may fail the Normalizer.
MixedArrayFiles == [isArray : {TRUE}, recs : [1..2 -> RawRecords], fname : {0}]

InitMemArray ==
  /\ ToolsIdle
  /\ files \in SeqsUpTo(MixedArrayFiles, MaxSeedFiles)
  /\ vecDown = {}
  /\ wclient = FALSE
  /\ schemaClass = FALSE
  /\ dataInitialized = TRUE
  /\ Quiet
  /\ MemQuiet

SpecMemArray == InitMemArray /\ [][NextMem]_vars

\* ---------------------------------------------------------------------------
\* Searches over a store that does not change
\* ---------------------------------------------------------------------------

Buckets == {"lt_100", "100-200", "200-500", "gt_500"}

PageLimits == {1, 2, 10}

\* Keyword requests for every page, without filters.
PagingQueries ==
  {Unfiltered(Str.salt, "keyword", page, limit) : page \in 1..MaxPage, limit \in PageLimits}

\* Requests with a weight bucket, a chemical class, a sort by weight.
FilterQueries ==
  [query : {Str.salt}, searchType : {"keyword", "semantic"},
   molecularWeight : {""} \cup Buckets, chemicalClass : {<<>>},
   sort : {"relevance", "molecular_weight"}, page : {1}, limit : {10}]
    \cup [query : {Str.acid}, searchType : {"keyword", "semantic"},
          molecularWeight : {""}, chemicalClass : {Str.aromatic},
          sort : {"relevance"}, page : {1}, limit : {10}]

\* Keyword requests whose query is found in one text field only, or in
\* another case.
TextQueries ==
  {Unfiltered(q, "keyword", 1, 10) : q \in {Str.ASPIRIN, Str.acid, Str.c9h8, Str.asa, Str.xyz}}

SearchQueries == PagingQueries \cup FilterQueries \cup TextQueries

\* The cids of the compounds with particular fields.
CatalogCids == 1..(2 + Len(SaltWeights))

\* A store is the sequence of the cids of its compounds, in insertion order:
\* up to MaxStore different compounds of the catalog, or n compounds that
\* all match `salt`.
SmallStores ==
  {st \in SeqsUpTo(CatalogCids, MaxStore) : \A i, j \in DOMAIN st : st[i] = st[j] => i = j}

MatchStore(n) == [i \in 1..n |-> 2 + Len(SaltWeights) + i]

PagingStores == {MatchStore(n) : n \in 0..MaxMatches}

\* The store after createCompound of each compound, Weaviate available.
StoreRows(st) == [i \in DOMAIN st |-> [id |-> i, cid |-> st[i], rec |-> <<0, i>>, call |-> 0]]

StoreObjs(st) == [i \in DOMAIN st |-> [cid |-> st[i], rec |-> <<0, i>>, call |-> 0]]

InitStore(stores) ==
  /\ ToolsIdle
  /\ files = <<>>
  /\ vecDown = {}
  /\ wclient = TRUE
  /\ schemaClass = TRUE
  /\ dataInitialized = TRUE
  /\ \E st \in stores :
       /\ rows = StoreRows(st)
       /\ wobjs = StoreObjs(st)
  /\ calls = 0
  /\ ld = [p \in Procs |-> IdleLd]
  /\ hist = <<>>
  /\ op = [p \in Procs |-> IdleOp]
  /\ nops = 0
  /\ MemQuiet

\* SupabaseStorage.searchCompounds, one request.
InitSearch == InitStore(SmallStores \cup PagingStores)

FirstSearch(p) == op[p].pc = "idle" /\ SearchStart(p)

NextSearch ==
  \/ FirstSearch(1)
  \/ SearchBeginWith(1, SearchQueries)
  \/ SearchSemantic(1) \/ SearchKeyword(1)

SpecSearch == InitSearch /\ [][NextSearch]_vars

\* Keyword searches, one after the other, over stores of about as many rows
\* as the keyword search fetches.
InitFetch == InitStore({MatchStore(n) : n \in (KeywordFetch - 1)..(KeywordFetch + 1)})

\* Keyword requests for the page that ends with the n-th match.
LastPageQueries ==
  {Unfiltered(Str.salt, "keyword", CeilDiv(n, limit), limit) :
     n \in (KeywordFetch - 1)..(KeywordFetch + 1), limit \in PageLimits}

NextFetch ==
  \/ SearchStart(1)
  \/ SearchBeginWith(1, PagingQueries \cup LastPageQueries)
  \/ SearchKeyword(1)

SpecFetch == InitFetch /\ [][NextFetch]_vars

\* MemStorage.searchCompounds, one request, over the store that one load of
\* one-compound files left, every write having succeeded.  Semantic requests are drawn
\* with the sort by relevance and without a chemical class.
MemQueries ==
  PagingQueries \cup TextQueries
    \cup {q \in FilterQueries : q.searchType = "semantic" =>
                                  q.sort = "relevance" /\ q.chemicalClass = <<>>}

InitMemQuery ==
  /\ ToolsIdle
  /\ vecDown = {}
  /\ wclient = FALSE
  /\ schemaClass = FALSE
  /\ dataInitialized = TRUE
  /\ wobjs = <<>>
  /\ ld = [p \in Procs |-> IdleLd]
  /\ op = [p \in Procs |-> IdleOp]
  /\ nops = 0
  /\ calls = 1
  /\ aclient = TRUE
  /\ task = [f \in FileIds |-> IdleTask]
  /\ \E st \in SmallStores \cup PagingStores :
       /\ files = [i \in DOMAIN st |-> [isArray |-> FALSE, recs |-> <<st[i]>>, fname |-> st[i]]]
       /\ rows = [i \in DOMAIN st |-> [id |-> i, cid |-> st[i], rec |-> <<i, 1>>, call |-> 1]]
       /\ compounds = [i \in DOMAIN st |-> [id |-> i, cid |-> st[i], rec |-> <<i, 1>>,
                                             call |-> 1, isProcessed |-> TRUE]]
       /\ compoundsByCid = [c \in CatalogCids \cup {st[i] : i \in DOMAIN st} |->
                              IF \E i \in DOMAIN st : st[i] = c
                              THEN CHOOSE i \in DOMAIN st : st[i] = c ELSE 0]
       /\ currentCompoundId = Len(st) + 1
       /\ adocs = [c \in CatalogCids \cup {st[i] : i \in DOMAIN st} |->
                     IF \E i \in DOMAIN st : st[i] = c
                     THEN [present |-> TRUE,
                           rec |-> <<CHOOSE i \in DOMAIN st : st[i] = c, 1>>, call |-> 1]
                     ELSE NoDoc]
       /\ mld = [IdleMld EXCEPT !.pc = "done", !.id = 1, !.limit = DefaultLimit,
                                 !.filesToProcess = [i \in DOMAIN st |-> i],
                                 !.loadedCount = Len(st), !.ret = Len(st)]
       /\ hist = <<[call |-> 1, limit |-> DefaultLimit, ret |-> Len(st), threw |-> FALSE,
                    nrows |-> Len(st)]>>

Mem_firstSearch(p) == op[p].pc = "idle" /\ Mem_searchCompoundsWith(p, MemQueries)

NextMemQuery ==
  \/ Mem_firstSearch(1)
  \/ AstraFind(1) \/ AstraCount(1)

SpecMemQuery == InitMemQuery /\ [][NextMemQuery]_vars

\* ------------------------------------------------------- db/processData.ts
\* A parsed JSON object, by the keys the Normalizer reads.  An absent key
\* reads as undefined: falsy, like the empty string, the number 0 and the
\* empty PC_Compounds array, so absent text is <<>>, an absent number is 0
\* and an absent array is <<>>.  PC_Compounds holds compounds reduced to
\* id.id.cid, the sval of the prop labelled 'Molecular Formula' and the
\* first synonym; Record holds the Record object (at most one) reduced to
\* RecordNumber, RecordTitle and the string of the section
\* 'Computed Descriptors' / 'Molecular Formula'.
NoKeys ==
  [PC_Compounds |-> <<>>, Record |-> <<>>,
   cid |-> 0, name |-> <<>>, formula |-> <<>>,
   iupacName |-> <<>>, iupac_name |-> <<>>,
   molecularWeight |-> 0, molecular_weight |-> 0,
   inchiKey |-> <<>>, inchi_key |-> <<>>,
   chemicalClass |-> <<>>, chemical_class |-> <<>>,
   imageUrl |-> <<>>, image_url |-> <<>>]

\* The objects the Normalizer is applied to: direct-format objects with and
\* without cid, name, formula and explicit class, their optional fields
\* absent or written in one key style, and PC_Compounds and Record objects
\* with and without cid, name and formula.
JsonObjects ==
  LET Formulas == {<<>>, <<"C", "6", "H", "1", "2", "O", "6">>, <<"N", "a", "C", "l">>}
      Names == {<<>>, <<"G", "l", "u", "c", "o", "s", "e">>}
      ExplicitClasses == {<<>>, <<"Monosaccharides">>}
      Optional == {[iupac |-> <<>>, weight |-> 0, key |-> <<>>, image |-> <<>>],
                   [iupac |-> <<"h", "e", "x", "o", "s", "e">>, weight |-> 180,
                    key |-> <<"W", "Q", "Z", "G">>, image |-> <<"g", ".", "p", "n", "g">>]}
      DirectObject(cid, name, formula, class, style, opt) ==
        LET base == [NoKeys EXCEPT !.cid = cid, !.name = name, !.formula = formula]
        IN IF style = "camelCase"
           THEN [base EXCEPT !.iupacName = opt.iupac, !.molecularWeight = opt.weight,
                             !.inchiKey = opt.key, !.chemicalClass = class,
                             !.imageUrl = opt.image]
           ELSE [base EXCEPT !.iupac_name = opt.iupac, !.molecular_weight = opt.weight,
                             !.inchi_key = opt.key, !.chemical_class = class,
                             !.image_url = opt.image]
  IN {DirectObject(cid, name, formula, class, style, opt) :
        cid \in 0..1, name \in Names, formula \in Formulas,
        class \in ExplicitClasses, style \in {"camelCase", "snake_case"}, opt \in Optional}
     \cup {[NoKeys EXCEPT !.PC_Compounds =
                            <<[cid |-> cid, formula |-> formula, synonym |-> name]>>] :
             cid \in 0..1, name \in Names, formula \in Formulas}
     \cup {[NoKeys EXCEPT !.Record = <<[RecordNumber |-> cid, RecordTitle |-> name,
                                        MolecularFormula |-> formula]>>] :
             cid \in 0..1, name \in Names, formula \in Formulas}

\* `Compound ${cid}` and the default image URL.
CompoundName(cid) == <<"C", "o", "m", "p", "o", "u", "n", "d", " ", ToString(cid)>>
imageFly(cid) == <<"imagefly.cgi?cid=", ToString(cid), "&width=300&height=300">>

\* A field the Normalizer leaves undefined: <<>> for text and arrays, Null
\* for a number.
NoFields ==
  [cid |-> 0, name |-> <<>>, formula |-> <<>>, iupacName |-> <<>>,
   molecularWeight |-> Null, inchiKey |-> <<>>, chemicalClass |-> <<>>,
   imageUrl |-> <<>>]

\* The formula heuristics of processPCCompound and processRecordFormat.
chemicalClasses(formula) ==
  IF formula = <<>> THEN <<>>
  ELSE IF includes(formula, <<"C">>) /\ includes(formula, <<"H">>)
       THEN <<"Organic compounds">>
              \o (IF includes(formula, <<"O">>) THEN <<"Oxygen-containing compounds">> ELSE <<>>)
              \o (IF includes(formula, <<"N">>) THEN <<"Nitrogen-containing compounds">> ELSE <<>>)
              \o (IF includes(formula, <<"S">>) THEN <<"Sulfur-containing compounds">> ELSE <<>>)
       ELSE <<"Inorganic compounds">>

Returned(value) == [status |-> "returned", value |-> value]
Thrown(message) == [status |-> "threw", message |-> message]

processPCCompound(compound) ==
  IF compound.cid = 0 THEN Thrown("Missing compound ID (CID)")
  ELSE Returned([NoFields EXCEPT
         !.cid = compound.cid,
         !.name = IF compound.synonym # <<>> THEN compound.synonym
                  ELSE CompoundName(compound.cid),
         !.molecularWeight = 0,
         !.formula = compound.formula,
         !.imageUrl = imageFly(compound.cid),
         !.chemicalClass = chemicalClasses(compound.formula)])

processRecordFormat(record) ==
  IF record.RecordNumber = 0 THEN Thrown("Missing compound ID (CID)")
  ELSE Returned([NoFields EXCEPT
         !.cid = record.RecordNumber,
         !.name = IF record.RecordTitle # <<>> THEN record.RecordTitle
                  ELSE CompoundName(record.RecordNumber),
         !.molecularWeight = 0,
         !.formula = record.MolecularFormula,
         !.chemicalClass = chemicalClasses(record.MolecularFormula),
         !.imageUrl = imageFly(record.RecordNumber)])

\* validateCompound reads the camelCase keys only and copies chemicalClass
\* when it is an array.
validateCompound(d) ==
  IF d.cid = 0 THEN Thrown("Missing compound ID (CID)")
  ELSE Returned(
         [cid |-> d.cid,
          name |-> IF d.name # <<>> THEN d.name ELSE CompoundName(d.cid),
          iupacName |-> d.iupacName,
          formula |-> d.formula,
          molecularWeight |-> IF d.molecularWeight # 0 THEN d.molecularWeight ELSE Null,
          chemicalClass |-> d.chemicalClass,
          inchiKey |-> d.inchiKey,
          imageUrl |-> IF d.imageUrl # <<>> THEN d.imageUrl ELSE imageFly(d.cid)])

\* `data.cid && data.name`
IsDirect_CidOnly(d) == d.cid # 0

IsDirect(d) == d.cid # 0 /\ d.name # <<>>

\* processCompoundData of processData.ts, on a whole parsed object.
PD_processCompoundData(d) ==
  IF d.PC_Compounds # <<>> THEN processPCCompound(d.PC_Compounds[1])
  ELSE IF d.Record # <<>> THEN processRecordFormat(d.Record[1])
  ELSE IF IsDirect(d) THEN validateCompound(d)
  ELSE Thrown("Unknown PubChem data format")

\* Nothing is stored and no tool has been started.
InitIdle ==
  /\ files = <<>>
  /\ vecDown = {}
  /\ wclient = FALSE
  /\ schemaClass = FALSE
  /\ dataInitialized = FALSE
  /\ Quiet
  /\ MemQuiet
  /\ ToolsIdle

\* One call of the Normalizer on one parsed object.
Normalize ==
  /\ norm.status = "none"
  /\ data' \in JsonObjects
  /\ norm' = PD_processCompoundData(data')
  /\ UNCHANGED <<files, vecDown, fetch, up, dl, rnd, lc, storeVars, loaderVars, opVars, memVars>>

SpecNormalize == InitIdle /\ [][Normalize]_vars

\* --------------------------------------------------- db/downloadPubChem.ts
\* What one axios.get ends with: 200 with the record, an HTTP error status,
\* or 0 for an error without a response (network failure, the 30 s timeout).
Statuses == {200, 400, 404, 429, 500, 503, 0}

\* isServerError || isRateLimitError
Retryable_AnyHttpError(status) == status >= 400

Retryable(status) == status >= 500 \/ status = 429

\* The catch block of fetchCompoundByCID: wait and try again, or return null.
catchOutcome_Rethrow(status, retryAttempt, maxRetries) ==
  IF Retryable(status) /\ retryAttempt < maxRetries THEN "retry"
  ELSE IF status \in {400, 404} THEN "null" ELSE "throw"

catchOutcome(status, retryAttempt, maxRetries) ==
  IF Retryable(status) /\ retryAttempt < maxRetries THEN "retry" ELSE "null"

\* `while (retryAttempt <= maxRetries)`; after the loop null is returned.
WhileRetry(f) ==
  IF f.retryAttempt <= f.maxRetries THEN [f EXCEPT !.pc = "request"]
  ELSE [f EXCEPT !.pc = "done", !.result = "null"]

\* fetchCompoundByCID(cid, maxRetries) is called.
FetchCall ==
  /\ fetch.pc = "idle"
  /\ \E maxRetries \in (0 - 1)..MaxRetries :
       fetch' = WhileRetry([pc |-> "idle", maxRetries |-> maxRetries, retryAttempt |-> 0,
                            statuses |-> <<>>, result |-> "none"])
  /\ UNCHANGED <<files, vecDown, data, norm, up, dl, rnd, lc, storeVars, loaderVars, opVars, memVars>>

\* The request ends; statuses lists what every request of the call ended with.
FetchResponse ==
  /\ fetch.pc = "request"
  /\ \E status \in Statuses :
       LET f == [fetch EXCEPT !.statuses = Append(@, status)]
           outcome == catchOutcome(status, fetch.retryAttempt, fetch.maxRetries)
       IN fetch' =
            IF status = 200 THEN [f EXCEPT !.pc = "done", !.result = "data"]
            ELSE IF outcome = "retry"
                 THEN [f EXCEPT !.pc = "backoff", !.retryAttempt = @ + 1]
            ELSE IF outcome = "null" THEN [f EXCEPT !.pc = "done", !.result = "null"]
            ELSE [f EXCEPT !.pc = "done", !.result = "threw"]
  /\ UNCHANGED <<files, vecDown, data, norm, up, dl, rnd, lc, storeVars, loaderVars, opVars, memVars>>

\* The timer of waitWithBackoff fires and the loop condition is tested.
FetchBackoff ==
  /\ fetch.pc = "backoff"
  /\ fetch' = WhileRetry(fetch)
  /\ UNCHANGED <<files, vecDown, data, norm, up, dl, rnd, lc, storeVars, loaderVars, opVars, memVars>>

NextFetchCID == FetchCall \/ FetchResponse \/ FetchBackoff

\* Every request ends (axios timeout) and every timer fires.
SpecFetchCID == InitIdle /\ [][NextFetchCID]_vars /\ WF_vars(NextFetchCID)

\* ------------------------------------------------------- the upload script
\* main() of the upload script on a directory of at most 10 files, which
\* processBatch handles as one Promise.all batch; the tables and the schema
\* exist.  A run is one execution of the script; runs are numbered up to
\* MaxRuns, later ones keep that number.  processCompoundFile gives
\* the whole parsed file to processCompoundData; a file it rejects ends its
\* task in the catch block.
UploadMain ==
  /\ up.pc = "idle"
  /\ up' = [pc |-> "batch", run |-> Min(up.run + 1, MaxRuns),
            task |-> [f \in FileIds |->
                        IF f \notin DOMAIN files THEN "none"
                        ELSE IF files[f].isArray \/ ~processCompoundDataOk(files[f].recs[1])
                             THEN "done" ELSE "select"]]
  /\ UNCHANGED <<files, vecDown, data, norm, fetch, dl, rnd, lc, storeVars, loaderVars, opVars, memVars>>

UpCompound(f) == processCompoundData(files[f].recs[1], <<f, 1>>, up.run)

\* insertCompoundToSupabase, the existence query answers: an existing row
\* returns false, and processCompoundFile then skips Weaviate.
UpSelect(f) ==
  /\ up.task[f] = "select"
  /\ up' = [up EXCEPT !.task[f] = IF UpCompound(f).cid \in RowCids THEN "done" ELSE "insert"]
  /\ UNCHANGED <<files, vecDown, data, norm, fetch, dl, rnd, lc, storeVars, loaderVars, opVars, memVars>>

\* insertCompoundToSupabase, the insert answers: an error returns false.
UpInsert(f) ==
  /\ up.task[f] = "insert"
  /\ IF createCompoundOk(UpCompound(f))
     THEN /\ rows' = createCompound(UpCompound(f))
          /\ up' = [up EXCEPT !.task[f] = "fetch"]
     ELSE /\ up' = [up EXCEPT !.task[f] = "done"]
          /\ UNCHANGED rows
  /\ UNCHANGED <<files, vecDown, data, norm, fetch, dl, rnd, lc, wobjs, wclient, schemaClass,
                 dataInitialized, loaderVars, opVars, memVars>>

\* The select of the inserted row answers; insertCompoundToWeaviate sends
\* its existence query.
UpFetch(f) ==
  /\ up.task[f] = "fetch"
  /\ up' = [up EXCEPT !.task[f] = "check"]
  /\ UNCHANGED <<files, vecDown, data, norm, fetch, dl, rnd, lc, storeVars, loaderVars, opVars, memVars>>

\* insertCompoundToWeaviate, the existence query answers.
UpCheck(f) ==
  /\ up.task[f] = "check"
  /\ up' = [up EXCEPT !.task[f] =
              IF \E i \in DOMAIN wobjs : wobjs[i].cid = UpCompound(f).cid
              THEN "done" ELSE "create"]
  /\ UNCHANGED <<files, vecDown, data, norm, fetch, dl, rnd, lc, storeVars, loaderVars, opVars, memVars>>

\* insertCompoundToWeaviate, the creator answers; its error is caught.
UpCreate(f) ==
  /\ up.task[f] = "create"
  /\ wobjs' = IF addCompoundOk(UpCompound(f)) THEN addCompound(UpCompound(f)) ELSE wobjs
  /\ up' = [up EXCEPT !.task[f] = "done"]
  /\ UNCHANGED <<files, vecDown, data, norm, fetch, dl, rnd, lc, rows, wclient, schemaClass,
                 dataInitialized, loaderVars, opVars, memVars>>

\* Promise.all of the batch resolves and the script ends.
UploadExit ==
  /\ up.pc = "batch"
  /\ \A f \in FileIds : up.task[f] \in {"none", "done"}
  /\ up' = [up EXCEPT !.pc = "idle"]
  /\ UNCHANGED <<files, vecDown, data, norm, fetch, dl, rnd, lc, storeVars, loaderVars, opVars, memVars>>

\* The Weaviate outage ends between two runs.
WeaviateRecovers ==
  /\ up.pc = "idle"
  /\ vecDown # {}
  /\ vecDown' = {}
  /\ UNCHANGED <<files, toolVars, storeVars, loaderVars, opVars, memVars>>

InitUpload ==
  /\ ToolsIdle
  /\ files \in SeqsUpTo(ObjectFiles, MaxFiles)
  /\ vecDown \in SUBSET CIDs
  /\ wclient = TRUE
  /\ schemaClass = TRUE
  /\ dataInitialized = FALSE
  /\ Quiet
  /\ MemQuiet

NextUpload ==
  \/ UploadMain \/ UploadExit \/ WeaviateRecovers
  \/ \E f \in FileIds : UpSelect(f) \/ UpInsert(f) \/ UpFetch(f) \/ UpCheck(f) \/ UpCreate(f)

\* Every request of a run answers, and the operator runs the script again.
SpecUpload == InitUpload /\ [][NextUpload]_vars /\ WF_vars(NextUpload)

\* ------------------------------------------------- the batch downloader
\* downloadCompoundsInBatches, near the end of the download: the progress
\* file counts all but the last two batches, and the script is either
\* stopped or sleeping between two batches with the compounds of its 49
\* batches in memory.  The cids of `missing` are
\* those whose fetch is rejected or whose record the Normalizer rejects
\* (both count as a failure).  dl.file is progress.json, dl.p the progress
\* object in memory; counted and dl.file.cids name the compounds counted by
\* downloadedCompounds.  Rows of earlier cids are left out.
DlFirst == TotalCompounds - 2 * BATCH_SIZE + 1

DlStopped(file, missing, run, stops) ==
  [running |-> FALSE, pc |-> "idle", file |-> file, missing |-> missing,
   run |-> run, stops |-> stops,
   p |-> file, currentCid |-> 0, i |-> 0, batchCompounds |-> <<>>]

DlCompound(d, cid) == processCompoundData(cid, <<0, cid>>, d.run)

\* The end of one pass of the while loop after the sleep, or the start of
\* the first pass: either another batch is fetched, or the loop ends, the
\* remaining compounds are inserted and the function returns.
DlLoop(d) ==
  IF d.p.downloadedCompounds < TotalCompounds THEN [d EXCEPT !.pc = "fetch"]
  ELSE IF d.batchCompounds # <<>> THEN [d EXCEPT !.pc = "final"]
  ELSE DlStopped(d.file, d.missing, d.run, d.stops)

\* After the for loop over the results: lastCompoundId is advanced and the
\* progress saved; the batch insert is sent once BATCH_DB_SIZE compounds
\* are held, otherwise the sleep begins.
DlSave(d) ==
  LET p == [d.p EXCEPT !.lastCompoundId = d.currentCid + BATCH_SIZE - 1]
      saved == [d EXCEPT !.p = p, !.file = p]
  IN IF Len(d.batchCompounds) >= BATCH_DB_SIZE THEN [saved EXCEPT !.pc = "insert"]
     ELSE [saved EXCEPT !.pc = "sleep", !.currentCid = @ + BATCH_SIZE]

\* The for loop from result `from` on: rejected results are counted as
\* failures without an await; the first fulfilled one is normalised, pushed
\* to batchCompounds and counted, and its addCompound is awaited.
DlResults(d, from) ==
  LET ok == {j \in from..(BATCH_SIZE - 1) : d.currentCid + j \notin d.missing} IN
  IF ok = {} THEN DlSave(d)
  ELSE LET j == CHOOSE k \in ok : \A l \in ok : k <= l
           cid == d.currentCid + j
       IN [d EXCEPT !.pc = "adding", !.i = j,
                    !.batchCompounds = Append(@, DlCompound(d, cid)),
                    !.p.downloadedCompounds = @ + 1,
                    !.p.cids = @ \cup {cid}]

\* The script is started: loadProgress, then the loop begins.
DlStart ==
  /\ ~dl.running
  /\ dl' = DlLoop([dl EXCEPT !.running = TRUE, !.run = Min(@ + 1, MaxRuns),
                             !.p = dl.file, !.currentCid = dl.file.lastCompoundId + 1,
                             !.batchCompounds = <<>>])
  /\ UNCHANGED <<files, vecDown, data, norm, fetch, up, rnd, lc, storeVars, loaderVars, opVars, memVars>>

\* Promise.allSettled of the batch resolves.
DlFetched ==
  /\ dl.running /\ dl.pc = "fetch"
  /\ dl' = DlResults(dl, 0)
  /\ UNCHANGED <<files, vecDown, data, norm, fetch, up, rnd, lc, storeVars, loaderVars, opVars, memVars>>

\* addCompound (Weaviate) of result i answers; its error is caught.
DlAdded ==
  LET compound == DlCompound(dl, dl.currentCid + dl.i) IN
  /\ dl.running /\ dl.pc = "adding"
  /\ wobjs' = IF addCompoundOk(compound) THEN addCompound(compound) ELSE wobjs
  /\ dl' = DlResults(dl, dl.i + 1)
  /\ UNCHANGED <<files, vecDown, data, norm, fetch, up, rnd, lc, rows, wclient, schemaClass,
                 dataInitialized, loaderVars, opVars, memVars>>

\* batchInsertCompounds at the threshold answers; its error is caught and
\* the compounds stay in memory.
DlInsert ==
  /\ dl.running /\ dl.pc = "insert"
  /\ IF batchInsertOk(dl.batchCompounds)
     THEN /\ rows' = batchInsertCompounds(dl.batchCompounds)
          /\ dl' = [dl EXCEPT !.pc = "sleep", !.currentCid = @ + BATCH_SIZE,
                              !.batchCompounds = <<>>]
     ELSE /\ dl' = [dl EXCEPT !.pc = "sleep", !.currentCid = @ + BATCH_SIZE]
          /\ UNCHANGED rows
  /\ UNCHANGED <<files, vecDown, data, norm, fetch, up, rnd, lc, wobjs, wclient, schemaClass,
                 dataInitialized, loaderVars, opVars, memVars>>

\* The sleep between two batches ends.
DlSleep ==
  /\ dl.running /\ dl.pc = "sleep"
  /\ dl' = DlLoop(dl)
  /\ UNCHANGED <<files, vecDown, data, norm, fetch, up, rnd, lc, storeVars, loaderVars, opVars, memVars>>

\* The final batchInsertCompounds answers and the script ends.
DlFinal ==
  /\ dl.running /\ dl.pc = "final"
  /\ rows' = IF batchInsertOk(dl.batchCompounds)
             THEN batchInsertCompounds(dl.batchCompounds) ELSE rows
  /\ dl' = DlStopped(dl.file, dl.missing, dl.run, dl.stops)
  /\ UNCHANGED <<files, vecDown, data, norm, fetch, up, rnd, lc, wobjs, wclient, schemaClass,
                 dataInitialized, loaderVars, opVars, memVars>>

\* The process is stopped (killed, crashed) while it waits; its memory is
\* lost and progress.json stays.
DlStop ==
  /\ dl.running
  /\ dl.stops < MaxRuns - 1
  /\ dl' = DlStopped(dl.file, dl.missing, dl.run, dl.stops + 1)
  /\ UNCHANGED <<files, vecDown, data, norm, fetch, up, rnd, lc, storeVars, loaderVars, opVars, memVars>>

InitDownload ==
  /\ files = <<>>
  /\ vecDown = {}
  /\ wclient = TRUE
  /\ schemaClass = TRUE
  /\ dataInitialized = FALSE
  /\ Quiet
  /\ MemQuiet
  /\ data = <<>>
  /\ norm = [status |-> "none"]
  /\ fetch = [pc |-> "idle"]
  /\ up = [pc |-> "idle", run |-> 0, task |-> [f \in 1..MaxFiles |-> "none"]]
  /\ rnd = [pc |-> "idle"]
  /\ lc = [pc |-> "idle", limit |-> Null, nfiles |-> 0, i |-> 0, retryCount |-> 0,
          totalLoaded |-> 0, ingested |-> <<>>]
  /\ \E missing \in SUBSET {DlFirst, DlFirst + 1, DlFirst + BATCH_SIZE} :
       LET held == BATCH_DB_SIZE - BATCH_SIZE
           file(cids) == [downloadedCompounds |-> DlFirst - 1,
                          lastCompoundId |-> DlFirst - 1, cids |-> cids]
           stopped == DlStopped(file({}), missing, 0, 0)
           asleep == DlStopped(file((DlFirst - held)..(DlFirst - 1)), missing, 1, 0)
       IN dl \in {stopped,
                  [asleep EXCEPT !.running = TRUE, !.pc = "sleep", !.currentCid = DlFirst,
                                 !.batchCompounds =
                                   [k \in 1..held |-> DlCompound(asleep, DlFirst - held - 1 + k)]]}

DlRun == DlStart \/ DlFetched \/ DlAdded \/ DlInsert \/ DlSleep \/ DlFinal

NextDownload == DlRun \/ DlStop

\* Requests answer and timers fire; a stopped script is started again.
SpecDownload == InitDownload /\ [][NextDownload]_vars /\ WF_vars(DlRun)

\* ------------------------------------ downloadPubChem.ts fetchRandomCompounds
\* cidsToTry holds 3 * count random cids, taken to be distinct; task t
\* downloads cidsToTry[t].  The tasks of a batch are created by batch.map
\* in one go: each tests downloadedCount and sends its request before any
\* of them continues.
RndBatch(r) == {t \in DOMAIN r.task : r.i < t /\ t <= r.i + Rnd_batchSize}

\* The for statement: its test, then the tasks of the next batch.
RndFor(r) ==
  IF r.i < Len(r.task) /\ r.downloadedCount < r.count
  THEN [r EXCEPT !.pc = "batch",
                 !.task = [t \in DOMAIN r.task |->
                             IF t \in RndBatch(r)
                             THEN IF r.downloadedCount >= r.count THEN "null" ELSE "fetch"
                             ELSE r.task[t]]]
  ELSE [r EXCEPT !.pc = "done"]

\* fetchRandomCompounds(count) is called.
RndCall ==
  /\ rnd.pc = "idle"
  /\ \E count \in 0..MaxCount :
       rnd' = RndFor([pc |-> "idle", count |-> count, i |-> 0, downloadedCount |-> 0,
                      task |-> [t \in 1..(count * 3) |-> "none"]])
  /\ UNCHANGED <<files, vecDown, data, norm, fetch, up, dl, lc, storeVars, loaderVars, opVars, memVars>>

\* fetchCompoundByCID of task t returns the record or null; a record is
\* written to its file.
RndFetched(t) ==
  /\ rnd.pc = "batch" /\ t \in DOMAIN rnd.task /\ rnd.task[t] = "fetch"
  /\ \E compound \in BOOLEAN :
       rnd' = [rnd EXCEPT !.task[t] = IF compound THEN "write" ELSE "null"]
  /\ UNCHANGED <<files, vecDown, data, norm, fetch, up, dl, lc, storeVars, loaderVars, opVars, memVars>>

\* fs.writeFile of task t is done: the file is saved and counted.
RndWritten(t) ==
  /\ rnd.pc = "batch" /\ t \in DOMAIN rnd.task /\ rnd.task[t] = "write"
  /\ rnd' = [rnd EXCEPT !.task[t] = "saved", !.downloadedCount = @ + 1]
  /\ UNCHANGED <<files, vecDown, data, norm, fetch, up, dl, lc, storeVars, loaderVars, opVars, memVars>>

\* Promise.all of the batch resolves: the wait before the next batch
\* begins, or the for statement goes on at once.
RndSettled ==
  /\ rnd.pc = "batch"
  /\ \A t \in RndBatch(rnd) : rnd.task[t] \in {"null", "saved"}
  /\ rnd' = IF rnd.downloadedCount < rnd.count THEN [rnd EXCEPT !.pc = "wait"]
            ELSE RndFor([rnd EXCEPT !.i = @ + Rnd_batchSize])
  /\ UNCHANGED <<files, vecDown, data, norm, fetch, up, dl, lc, storeVars, loaderVars, opVars, memVars>>

\* The wait between two batches ends.
RndWait ==
  /\ rnd.pc = "wait"
  /\ rnd' = RndFor([rnd EXCEPT !.i = @ + Rnd_batchSize])
  /\ UNCHANGED <<files, vecDown, data, norm, fetch, up, dl, lc, storeVars, loaderVars, opVars, memVars>>

NextRandom ==
  \/ RndCall \/ RndSettled \/ RndWait
  \/ \E t \in 1..(MaxCount * 3) : RndFetched(t) \/ RndWritten(t)

SpecRandom == InitIdle /\ [][NextRandom]_vars

\* ------------------------------------------- scripts/load-compounds.ts
\* The script runs in a process of its own, as process 1 of the storage.
\* The data directory holds n files pubchem_compound_<cid>.json of one
\* record each, listed in the order of their sorted names; their cids
\* start after those the API clients create.
CompoundFiles(n) ==
  [f \in 1..n |-> [isArray |-> FALSE, recs |-> <<f + 2>>, fname |-> f + 2]]

\* filesToProcess.slice(i, i + BATCH_SIZE).length
LcBatchLength(l) == Min(l.i + Lc_BATCH_SIZE, l.nfiles) - l.i

\* The files whose records the loader call `id` wrote to a store.
IngestedByCall(id) ==
  {wobjs[k].rec[1] : k \in {j \in DOMAIN wobjs : wobjs[j].call = id}}
    \cup {rows[k].rec[1] : k \in {j \in DOMAIN rows : rows[j].call = id}}

\* loadCompounds up to the first await inside storage.initializeDatabase();
\* process.argv[2] gives no limit (Infinity) or a number.
LcMain ==
  /\ lc.pc = "idle"
  /\ \E limit \in {Null, 1} : lc' = [lc EXCEPT !.pc = "init", !.limit = limit]
  /\ op' = [op EXCEPT ![1] = [IdleOp EXCEPT !.kind = "script",
                                !.pc = IF wclient THEN "schemaGet" ELSE "meta"]]
  /\ wclient' = TRUE
  /\ UNCHANGED <<files, vecDown, data, norm, fetch, up, dl, rnd, rows, wobjs, schemaClass,
                 dataInitialized, loaderVars, nops, memVars>>

\* The loop head at index i: past the last file the script is done,
\* otherwise loadPubChemData(batch.length) is called.
LcFor(l) ==
  IF l.i < l.nfiles
  THEN /\ lc' = [l EXCEPT !.pc = "batch"]
       /\ loadPubChemData(1, LcBatchLength(l), "script")
  ELSE /\ lc' = [l EXCEPT !.pc = "done"]
       /\ ld' = [ld EXCEPT ![1] = IdleLd]
       /\ UNCHANGED <<calls, hist>>

\* initializeDatabase has returned or thrown (the outer catch exits with
\* code 1); the directory is listed, the limit applied, the loop entered.
LcInitialized ==
  /\ lc.pc = "init"
  /\ op[1].kind = "script"
  /\ op[1].pc \in {"search", "done"}
  /\ op' = [op EXCEPT ![1] = IdleOp]
  /\ IF op[1].threw
     THEN /\ lc' = [lc EXCEPT !.pc = "exit1"]
          /\ UNCHANGED loaderVars
     ELSE LET n == Len(files)
              nfiles == IF lc.limit # Null /\ lc.limit < n THEN lc.limit ELSE n
          IN LcFor([lc EXCEPT !.nfiles = nfiles, !.i = 0, !.retryCount = 0])
  /\ UNCHANGED <<files, vecDown, data, norm, fetch, up, dl, rnd, storeVars, nops, memVars>>

\* The loadPubChemData call of the batch has returned or thrown.  A return
\* adds to totalLoaded and leaves the while loop; a throw counts a retry,
\* waits 5 s while retries remain and otherwise skips to the next batch.
LcLoaded ==
  LET l == ld[1]
      b == lc.i \div Lc_BATCH_SIZE + 1
      noted == [lc EXCEPT !.ingested = [k \in DOMAIN @ \cup {b} |->
                            IF k \in DOMAIN @
                            THEN IF k = b THEN @[k] \cup IngestedByCall(l.id) ELSE @[k]
                            ELSE IngestedByCall(l.id)]]
  IN /\ lc.pc = "batch"
     /\ l.pc = "done"
     /\ IF ~l.threw
        THEN LcFor([noted EXCEPT !.totalLoaded = @ + l.ret, !.i = @ + Lc_BATCH_SIZE,
                                 !.retryCount = 0])
        ELSE IF lc.retryCount + 1 <= MAX_RETRIES
        THEN /\ lc' = [noted EXCEPT !.pc = "wait", !.retryCount = @ + 1]
             /\ ld' = [ld EXCEPT ![1] = IdleLd]
             /\ UNCHANGED <<calls, hist>>
        ELSE LcFor([noted EXCEPT !.i = @ + Lc_BATCH_SIZE, !.retryCount = 0])
     /\ UNCHANGED <<files, vecDown, data, norm, fetch, up, dl, rnd, storeVars, opVars, memVars>>

\* The 5 s timer fires: the while loop calls loadPubChemData again.
LcRetry ==
  /\ lc.pc = "wait"
  /\ lc' = [lc EXCEPT !.pc = "batch"]
  /\ loadPubChemData(1, LcBatchLength(lc), "script")
  /\ UNCHANGED <<files, vecDown, data, norm, fetch, up, dl, rnd, storeVars, opVars, memVars>>

\* The script on a new deployment (empty stores, one file), or on a
\* deployment whose stores hold one compound created through the API
\* before the files were downloaded, with more files than one batch holds.
InitScript ==
  /\ ToolsIdle
  /\ vecDown = {}
  /\ wclient = FALSE
  /\ dataInitialized = FALSE
  /\ calls = 0
  /\ ld = [p \in Procs |-> IdleLd]
  /\ hist = <<>>
  /\ op = [p \in Procs |-> IdleOp]
  /\ nops = 0
  /\ MemQuiet
  /\ \/ /\ files = CompoundFiles(1)
        /\ schemaClass = FALSE
        /\ rows = <<>>
        /\ wobjs = <<>>
     \/ /\ files \in {CompoundFiles(Lc_BATCH_SIZE + k) : k \in 1..MaxSeedFiles}
        /\ schemaClass = TRUE
        /\ \E cid \in CIDs :
             /\ rows = <<[id |-> 1, cid |-> cid, rec |-> <<0, 1>>, call |-> 0]>>
             /\ wobjs = <<[cid |-> cid, rec |-> <<0, 1>>, call |-> 0]>>

NextScript ==
  \/ LcMain \/ InitMeta(1) \/ InitSchemaGet(1) \/ InitSchemaCreate(1)
  \/ InitSupabase(1) \/ InitProbe(1) \/ InitSeedDone(1)
  \/ LdRecord(1) \/ LdFlush(1) \/ LdFinal(1)
  \/ LcInitialized \/ LcLoaded \/ LcRetry

SpecScript == InitScript /\ [][NextScript]_vars

\* ------------------------------------------------------------------ claims
\* Records written by loader call k to the Primary Store / the Vector Store.
PrimaryWrites(k) == {rows[i].rec : i \in {j \in DOMAIN rows : rows[j].call = k}}
VectorWrites(k) == {wobjs[i].rec : i \in {j \in DOMAIN wobjs : wobjs[j].call = k}}
AstraWrites(k) == {adocs[c].rec : c \in {d \in CIDs : adocs[d].present /\ adocs[d].call = k}}

\* C1: no two rows of the Primary Store share a cid, and every further
\* loadPubChemData call over the same files with the same limit leaves as
\* many rows as the first call did.
C1_IdempotentLoad ==
  /\ NoDupCids(rows)
  /\ \A k \in DOMAIN hist :
       (\A j \in 1..k : hist[j].limit = hist[1].limit) => hist[k].nrows = hist[1].nrows

\* Two calls with the same limit; the first stored two rows and the second
\* ingested records again.
C1_Witness ==
  /\ Len(hist) = 2
  /\ hist[2].limit = hist[1].limit
  /\ hist[1].nrows = 2
  /\ VectorWrites(2) # {}

\* C2: a createCompound that finds its cid in the Primary Store returns the
\* stored row, which is not the record it was given, adds no row and does
\* not throw.
C2_ReturnsExisting ==
  \A p \in Procs :
    (op[p].kind = "create" /\ op[p].pc = "done" /\ op[p].existed) =>
      /\ ~op[p].threw
      /\ op[p].row \in DOMAIN rows
      /\ rows[op[p].row].cid = op[p].cid
      /\ rows[op[p].row].rec # op[p].rec

\* C3: whatever the interleaving of the tasks of a batch, MemStorage never
\* holds two compounds with the same cid, and neither does the Supabase
\* table the tasks write to.
C3_NoDuplicateCid ==
  /\ \A i, j \in DOMAIN compounds : compounds[i].cid = compounds[j].cid => i = j
  /\ NoDupCids(rows)

\* Two tasks of one batch carry the same cid: one has created the compound
\* and is still writing it to the external stores, the other found it.
C3_Witness ==
  \E f, g \in FileIds :
    /\ f # g
    /\ task[f].cid = task[g].cid
    /\ task[f].pc \in {"supaSelect", "supaInsert", "astra"}
    /\ task[f].created # 0
    /\ task[g].existing = task[f].created

\* C4: a semantic search whose semanticSearch call failed ends without an
\* error and answers what the keyword search answers.
C4_SemanticFallsBack ==
  \A p \in Procs :
    (op[p].kind = "search" /\ op[p].pc = "done" /\ op[p].vecFailed) =>
      /\ ~op[p].threw
      /\ op[p].resp = op[p].fallback

\* C5: a semantic search that met an unavailable vector backend ends with an
\* error or with the keyword results, not with an empty success that hides
\* stored matches.
C5_NoEmptySuccessOnOutage ==
  \A p \in Procs :
    (op[p].kind = "search" /\ op[p].pc = "done" /\ op[p].vecFailed) =>
      \/ op[p].threw
      \/ op[p].resp = op[p].fallback

\* C6: at most one process is inside initializeDatabase at any time.
InInit(p) ==
  op[p].pc \in {"meta", "schemaGet", "schemaCreate", "supabase", "probe", "seed"}

C6_InitOnce == Cardinality({p \in Procs : InInit(p)}) <= 1

\* C7: when a record's row is inserted into the Primary Store, the same
\* call has not yet written that record to the Vector Store.
C7_PrimaryBeforeVector ==
  [][\A j \in DOMAIN rows' :
       j \notin DOMAIN rows => rows'[j].rec \notin VectorWrites(rows'[j].call)]_vars

\* SupabaseStorage: the count a call returns equals the number of records the
\* call wrote to both stores.
Supa_CountIsBoth ==
  \A k \in DOMAIN hist :
    ~hist[k].threw =>
      hist[k].ret = Cardinality(PrimaryWrites(hist[k].call) \cap VectorWrites(hist[k].call))

\* C8: the count a MemStorage call returns equals the number of records
\* the call wrote to both the Primary Store and the Vector Store.
C8_CountIsBoth ==
  \A k \in DOMAIN hist :
    hist[k].ret = Cardinality(PrimaryWrites(hist[k].call) \cap AstraWrites(hist[k].call))

\* C9: a compound whose isProcessed flag is true has its document in the
\* vector store.
C9_ProcessedInVector ==
  \A i \in DOMAIN compounds :
    compounds[i].isProcessed =>
      /\ adocs[compounds[i].cid].present
      /\ adocs[compounds[i].cid].rec = compounds[i].rec

\* C10: the vector store holds at most one object per cid.
C10_OneObjectPerCid ==
  \A i, j \in DOMAIN wobjs : wobjs[i].cid = wobjs[j].cid => i = j

\* The batch (0, 1, ...) of the file at position k of filesToProcess.
BatchIndex(k) == (k - 1) \div batchSize

\* C11: when the task of a file starts, the task of every file of the
\* batches before it has returned: batch N+1 starts no record before every
\* record of batch N has settled.
C11_BatchesSequential ==
  [][\A k \in DOMAIN mld'.filesToProcess :
       LET f == mld'.filesToProcess[k] IN
       (task[f].pc # "read" /\ task'[f].pc = "read") =>
         \A j \in DOMAIN mld'.filesToProcess :
           BatchIndex(j) < BatchIndex(k) => task[mld'.filesToProcess[j]].pc = "done"]_vars

\* A task of the second batch is writing its compound while the first batch
\* has loaded a compound.
C11_Witness ==
  /\ mld.pc = "batch"
  /\ mld.i = batchSize
  /\ mld.loadedCount >= 1
  /\ \E f \in DOMAIN task : f > batchSize /\ task[f].pc = "supaInsert"

\* C12: when a MemStorage load has returned, every element of every file it
\* processed that passes the Normalizer has gone through the pipeline: a
\* compound with its cid is stored.
C12_EachArrayElement ==
  mld.pc = "done" =>
    \A k \in DOMAIN mld.filesToProcess :
      LET f == mld.filesToProcess[k] IN
      \A r \in DOMAIN files[f].recs :
        processCompoundDataOk(files[f].recs[r]) => compoundsByCid[files[f].recs[r]] # 0

\* Compounds, rows and documents made from record r of file f.
StoredFrom(f, r) ==
  {i \in DOMAIN compounds : compounds[i].rec = <<f, r>>}
    \cup {i \in DOMAIN rows : rows[i].rec = <<f, r>>}
    \cup {c \in CIDs : adocs[c].present /\ adocs[c].rec = <<f, r>>}

\* C13: when a MemStorage load has returned, a file with a record that
\* fails the Normalizer has lost only that record: nothing was stored from
\* it, and every record of the file that passes the Normalizer went through
\* the pipeline (a compound with its cid is stored).
C13_SkipsOnlyFailedRecord ==
  mld.pc = "done" =>
    \A k \in DOMAIN mld.filesToProcess :
      LET f == mld.filesToProcess[k]
          failed == {r \in DOMAIN files[f].recs : ~processCompoundDataOk(files[f].recs[r])}
      IN failed # {} =>
           /\ \A r \in failed : StoredFrom(f, r) = {}
           /\ \A r \in DOMAIN files[f].recs \ failed : compoundsByCid[files[f].recs[r]] # 0

\* C14: totalResults is the number of matches before pagination, so a
\* response that carries results on page p counts at least the (p-1)*limit
\* matches of the pages before it plus its own, and totalPages reaches p.
C14_TotalCountsAllPages ==
  \A p \in Procs :
    (op[p].kind = "search" /\ op[p].pc = "done" /\ ~op[p].threw
       /\ op[p].resp.results # <<>>) =>
      /\ op[p].resp.totalResults >= (op[p].page - 1) * op[p].limit + Len(op[p].resp.results)
      /\ op[p].resp.totalPages >= op[p].page

\* C15: every result of a semantic request that names a weight bucket or a
\* chemical class passes the bucket filter and the class filter.
C15_SemanticResultsFiltered ==
  \A p \in Procs :
    LET o == op[p] IN
    (o.kind = "search" /\ o.pc = "done" /\ ~o.threw /\ o.searchType = "semantic"
       /\ (o.molecularWeight # "" \/ o.chemicalClass # <<>>)) =>
      \A i \in DOMAIN o.resp.results :
        /\ o.molecularWeight = ""
             \/ filterByMolecularWeight(Catalog(o.resp.results[i]), o.molecularWeight)
        /\ o.chemicalClass = <<>>
             \/ matchesChemClass(Catalog(o.resp.results[i]), o.chemicalClass)

\* The rows of the Primary Store that name, description or formula make a
\* match of the query.
Matching(query) ==
  {i \in DOMAIN rows : Mem_matchesKeyword(Catalog(rows[i].cid), query)}

Max(a, b) == IF a >= b THEN a ELSE b

\* The keyword request of p has been answered and had no filter.
KeywordAnswered(p) ==
  /\ op[p].kind = "search" /\ op[p].pc = "done" /\ ~op[p].threw
  /\ op[p].searchType = "keyword"
  /\ op[p].molecularWeight = "" /\ op[p].chemicalClass = <<>>

\* C16: with N compounds matching a keyword request, totalPages is
\* ceil(N / limit) and page p holds min(limit, max(0, N - (p-1)*limit))
\* results.
C16_PaginationMath ==
  \A p \in Procs :
    LET o == op[p]
        N == Cardinality(Matching(o.query))
    IN KeywordAnswered(p) =>
         /\ o.resp.totalPages = CeilDiv(N, o.limit)
         /\ Len(o.resp.results) = Min(o.limit, Max(0, N - (o.page - 1) * o.limit))

\* SupabaseStorage: the same, for the matches of its own text filter, while
\* the store holds no more rows than the keyword search fetches; 25 matches and limit 10 make 3 pages, the third
\* of 5 results.
Supa_PaginationWithinFetch ==
  \A p \in Procs :
    LET o == op[p]
        N == Cardinality({i \in DOMAIN rows : matchesKeyword(Catalog(rows[i].cid), o.query)})
    IN (KeywordAnswered(p) /\ Len(rows) <= KeywordFetch) =>
         /\ o.resp.totalPages = CeilDiv(N, o.limit)
         /\ Len(o.resp.results) = Min(o.limit, Max(0, N - (o.page - 1) * o.limit))
         /\ (N = 25 /\ o.limit = 10) => o.resp.totalPages = 3
         /\ (N = 25 /\ o.limit = 10 /\ o.page = 3) => Len(o.resp.results) = 5

\* The cids an answer holds.
ResultCids(o) == {o.resp.results[k] : k \in DOMAIN o.resp.results}

\* The request of p has been answered on its first page and the page is
\* large enough for the whole store.
WholeStoreAnswered(p) ==
  /\ op[p].kind = "search" /\ op[p].pc = "done" /\ ~op[p].threw
  /\ op[p].page = 1 /\ Len(rows) <= op[p].limit

\* C17: the bucket filter of a keyword search keeps a compound of weight
\* exactly 100 or exactly 200 for bucket 100-200 only, and a compound of
\* weight exactly 500 for bucket 200-500 only (and any of them without a
\* bucket): 100 is not in lt_100, 200 not in 200-500, 500 not in gt_500.
C17_BucketBoundaries ==
  \A p \in Procs :
    LET o == op[p] IN
    (WholeStoreAnswered(p) /\ o.searchType = "keyword" /\ o.chemicalClass = <<>>) =>
      \A i \in DOMAIN rows :
        LET compound == Catalog(rows[i].cid)
            w == compound.molecularWeight
        IN (w \in {100, 200, 500} /\ matchesKeyword(compound, o.query)) =>
             (rows[i].cid \in ResultCids(o)
                <=> o.molecularWeight \in {"", IF w = 500 THEN "200-500" ELSE "100-200"})

\* A keyword search with bucket 200-500 over a store of a compound of
\* weight 200 and one of weight 500 has answered with the second only.
C17_Witness ==
  \E p \in Procs :
    /\ WholeStoreAnswered(p)
    /\ op[p].searchType = "keyword"
    /\ op[p].molecularWeight = "200-500"
    /\ {Catalog(rows[i].cid).molecularWeight : i \in DOMAIN rows} = {200, 500}
    /\ {Catalog(c).molecularWeight : c \in ResultCids(op[p])} = {500}

\* C18: the weight range the AstraDB adapter builds for a bucket accepts the
\* weights the bucket filter of the store accepts: the count a semantic
\* search returns for a bucket is the number of stored documents whose
\* weight passes filterByMolecularWeight for that bucket.
C18_SamePredicate ==
  \A p \in Procs :
    LET o == op[p] IN
    (o.kind = "search" /\ o.pc = "done" /\ o.searchType = "semantic" /\ ~o.vecFailed
       /\ o.molecularWeight \in Buckets) =>
      o.resp.totalResults =
        Cardinality({c \in DocCids : filterByMolecularWeight(Catalog(c), o.molecularWeight)})

\* C19: in the answer to a request sorted by molecular_weight no compound
\* of unknown weight stands before a compound of known weight.
C19_UnknownWeightLast ==
  \A p \in Procs :
    LET o == op[p]
        known(k) == Truthy(Catalog(o.resp.results[k]).molecularWeight)
    IN (o.kind = "search" /\ o.pc = "done" /\ ~o.threw /\ o.sort = "molecular_weight") =>
         \A j, k \in DOMAIN o.resp.results : (j < k /\ known(k)) => known(j)

\* C20: a keyword search without filters, whose page holds the whole store,
\* returns a compound exactly when the query is a case-insensitive substring
\* of its name, its description or its formula.
C20_KeywordFields ==
  \A p \in Procs :
    (WholeStoreAnswered(p) /\ KeywordAnswered(p)) =>
      \A i \in DOMAIN rows :
        rows[i].cid \in ResultCids(op[p]) <=> i \in Matching(op[p].query)

\* The object has none of the three recognised shapes.
Unrecognised(d) ==
  d.PC_Compounds = <<>> /\ d.Record = <<>> /\ ~(d.cid # 0 /\ d.name # <<>>)

SourceFormula(d) ==
  IF d.PC_Compounds # <<>> THEN d.PC_Compounds[1].formula
  ELSE IF d.Record # <<>> THEN d.Record[1].MolecularFormula
  ELSE d.formula

\* C22: an object of any of the three formats that has a formula and no
\* explicit chemical class normalises with the classes derived from the
\* formula: C6H12O6 gives Organic and Oxygen-containing compounds, NaCl
\* gives Inorganic compounds.
C22_ClassDerivedFromFormula ==
  LET formula == SourceFormula(data) IN
  (norm.status = "returned" /\ formula # <<>>
     /\ data.chemicalClass = <<>> /\ data.chemical_class = <<>>) =>
    /\ norm.value.chemicalClass = chemicalClasses(formula)
    /\ formula = <<"C", "6", "H", "1", "2", "O", "6">> =>
         norm.value.chemicalClass = <<"Organic compounds", "Oxygen-containing compounds">>
    /\ formula = <<"N", "a", "C", "l">> =>
         norm.value.chemicalClass = <<"Inorganic compounds">>

\* The same object with every snake_case key renamed to its camelCase key.
camelCase(d) ==
  [d EXCEPT !.iupacName = IF d.iupacName # <<>> THEN @ ELSE d.iupac_name,
            !.molecularWeight = IF d.molecularWeight # 0 THEN @ ELSE d.molecular_weight,
            !.inchiKey = IF d.inchiKey # <<>> THEN @ ELSE d.inchi_key,
            !.chemicalClass = IF d.chemicalClass # <<>> THEN @ ELSE d.chemical_class,
            !.imageUrl = IF d.imageUrl # <<>> THEN @ ELSE d.image_url,
            !.iupac_name = <<>>, !.molecular_weight = 0, !.inchi_key = <<>>,
            !.chemical_class = <<>>, !.image_url = <<>>]

\* C23: a direct-format object normalises to the compound that the same
\* object with camelCase keys normalises to.
C23_SnakeCaseAccepted ==
  (norm.status # "none" /\ data.PC_Compounds = <<>> /\ data.Record = <<>>) =>
    norm = PD_processCompoundData(camelCase(data))

\* C24: within one call of fetchCompoundByCID every request that was
\* followed by another request ended with a 5xx or 429 status, and a
\* request that ended with 404 or 400 is the last of the call, which
\* returns null.
C24_RetryOnlyServerErrors ==
  fetch.pc # "idle" =>
    /\ \A i \in 1..(Len(fetch.statuses) - 1) :
         fetch.statuses[i] >= 500 \/ fetch.statuses[i] = 429
    /\ \A i \in DOMAIN fetch.statuses :
         fetch.statuses[i] \in {400, 404} =>
           i = Len(fetch.statuses) /\ fetch.pc = "done" /\ fetch.result = "null"

\* A call has retried after a 429 and a 503 and then ended on a 404.
C24_Witness ==
  /\ fetch.pc = "done"
  /\ fetch.statuses = <<429, 503, 404>>
  /\ fetch.result = "null"

\* C29: a call of fetchCompoundByCID issues at most maxRetries + 1
\* requests, never throws, and eventually returns the record or null.
C29_FetchTerminates ==
  /\ [](fetch.pc # "idle" =>
          /\ Len(fetch.statuses) <= fetch.maxRetries + 1
          /\ fetch.result \in {"none", "data", "null"})
  /\ (fetch.pc # "idle") ~> (fetch.pc = "done" /\ fetch.result \in {"data", "null"})

\* A call has used all of its maxRetries + 1 requests, the last ending
\* without a response, and has returned null.
C29_Witness ==
  /\ fetch.pc = "done"
  /\ fetch.maxRetries = MaxRetries
  /\ Len(fetch.statuses) = fetch.maxRetries + 1
  /\ fetch.statuses[Len(fetch.statuses)] = 0
  /\ fetch.result = "null"

\* The compound of cid c is in the Primary Store and not in the Vector Store.
VectorGap(c) == c \in RowCids /\ \A i \in DOMAIN wobjs : wobjs[i].cid # c

\* C25: a compound that is in the Primary Store and not in the Vector Store
\* is eventually in the Vector Store, the upload script being run again
\* and again over the same files with Weaviate working.
C25_RerunClosesGap ==
  \A c \in CIDs :
    (VectorGap(c) /\ up.pc = "idle" /\ vecDown = {}) ~> ~VectorGap(c)

\* C26: every compound counted in the saved progress of the batch
\* downloader is eventually a row of the Primary Store, the script being
\* started again whenever it has stopped: from some time on the rows
\* hold every compound that the progress file counts.
C26_CountedIsInserted == <>[](dl.file.cids \subseteq RowCids)

\* C27: a call fetchRandomCompounds(count) never has more than count
\* compound files saved.
C27_AtMostCountSaved ==
  rnd.pc # "idle" =>
    Cardinality({t \in DOMAIN rnd.task : rnd.task[t] = "saved"}) <= rnd.count

\* C28: across the batches of the load-compounds script no file is ingested
\* by two batches, and when the script is done every file selected for
\* processing has been ingested by a batch.
C28_OneBatchPerFile ==
  /\ \A a, b \in DOMAIN lc.ingested : a # b => lc.ingested[a] \cap lc.ingested[b] = {}
  /\ lc.pc = "done" =>
       \A f \in 1..lc.nfiles : \E b \in DOMAIN lc.ingested : f \in lc.ingested[b]

\* C30: a keyword search without filters finds every stored compound that
\* matches the query, whatever the number of rows: the k-th matching
\* compound is among the results of page ceil(k / limit) and of no other
\* page.
C30_EveryMatchOnOnePage ==
  \A p \in Procs :
    LET o == op[p]
        Hit(row) == matchesKeyword(Catalog(row.cid), o.query)
        hits == SelectSeq(rows, Hit)
    IN KeywordAnswered(p) =>
         \A k \in DOMAIN hits :
           hits[k].cid \in ResultCids(o) <=> o.page = CeilDiv(k, o.limit)
====
